---------------------------- MODULE Spec2Model ----------------------------
(***************************************************************************)
(* A model of the uro0 compiler pipeline (src/uro0): token model, the      *)
(* recursive-descent parser, the IR lowering, the x86-64 code generator    *)
(* and the REPL shell.                                                     *)
(*                                                                         *)
(* Python values are encoded as follows.  A str is a string (TLC computes  *)
(* Len, \o and SubSeq of strings).  A Token and a Node are records; a list *)
(* or a tuple is a sequence.  An operator that models a method which may   *)
(* raise returns a record whose field exc names the exception ("none" when *)
(* the method returns normally).                                           *)
(***************************************************************************)
EXTENDS Integers, Sequences, FiniteSets, TLC

VARIABLES
    tokens,        \* Parser._tokens, the token buffer
    ast,           \* Parser.ast, the committed AST
    pc,            \* position of the driver (main or the shell loop)
    ret,           \* value returned by the last Parser.parse call
    exc,           \* exception raised by the last call, [kind |-> "none"] if none
    ir,            \* IRGenerator(...).ir of the committed AST
    gen,           \* the GeneratorX86_64Linux instance
    out,           \* text returned by the last Generator.asm call
    nadded,        \* source lines whose tokens are in the buffer
    continuation,  \* Shell.run's local continuation flag
    log,           \* history of the session (inputs evaluated, compile calls made)
    lex,           \* the locals of a running tokenize call
    cpu            \* the machine that runs emitted code: registers and memory

vars == <<tokens, ast, pc, ret, exc, ir, gen, out, nadded, continuation, log, lex, cpu>>

---------------------------------------------------------------------------
(* uro/tokens.py *)

TOKEN_WHITESPACE == "token_whitespace"
TOKEN_COMMENT == "token_comment"
TOKEN_KEYWORD == "token_keyword"
TOKEN_NUMBER == "token_number"
TOKEN_STRING == "token_string"
TOKEN_IDENTIFIER == "token_identifier"
TOKEN_LBRACKET == "token_lbracket"
TOKEN_RBRACKET == "token_rbracket"
TOKEN_LCURLYBRACKET == "token_lcurlybracket"
TOKEN_RCURLYBRACKET == "token_rcurlybracket"
TOKEN_LSTRAIGHTBRACKET == "token_lstraightbracket"
TOKEN_RSTRAIGHTBRACKET == "token_rstraightbracket"
TOKEN_PERIOD == "token_period"
TOKEN_COMMA == "token_comma"
TOKEN_EQUAL == "token_equal"
TOKEN_GREATERTHAN == "token_greaterthan"
TOKEN_LESSTHAN == "token_lessthan"
TOKEN_ASSIGN == "token_assign"
TOKEN_COLON == "token_colon"
TOKEN_SEMICOLON == "token_semicolon"
TOKEN_MINUS == "token_minus"
TOKEN_PLUS == "token_plus"
TOKEN_ASTERISK == "token_asterisk"
TOKEN_UNKNOWN == "token_unknown"
TOKEN_EOF == "$"

KEYWORDS == {"fn", "for", "import", "in", "return", "True", "False", "extern", "free"}

\* Token.__init__; Token.__eq__ compares the type only, which the model
\* writes as t.type = TOKEN_X.
Token(token_type, value, line) == [type |-> token_type, value |-> value, line |-> line]

---------------------------------------------------------------------------
(* uro/lexer.py: tokenize.  A regular expression of PATTERNS is matched by  *)
(* re_match, which gives the length of the match at the start of the        *)
(* string, 0 when there is none (no pattern matches the empty string).      *)

Digits == {"0", "1", "2", "3", "4", "5", "6", "7", "8", "9"}
Letters ==
    {"a", "b", "c", "d", "e", "f", "g", "h", "i", "j", "k", "l", "m", "n", "o", "p",
     "q", "r", "s", "t", "u", "v", "w", "x", "y", "z", "A", "B", "C", "D", "E", "F",
     "G", "H", "I", "J", "K", "L", "M", "N", "O", "P", "Q", "R", "S", "T", "U", "V",
     "W", "X", "Y", "Z", "_"}
Spaces == {" ", "\t", "\r", "\f"}

\* tokens.py PATTERNS, in order.  A pattern of one literal text is given by
\* that text.
PATTERNS ==
    << <<"\\s+", TOKEN_WHITESPACE>>,
       <<"\\d+", TOKEN_NUMBER>>,
       <<"#.*$", TOKEN_COMMENT>>,
       <<"'.*?'", TOKEN_STRING>>,
       <<"\".*?\"", TOKEN_STRING>>,
       <<"[a-zA-Z_][a-zA-Z_0-9]*", TOKEN_IDENTIFIER>>,
       <<"(", TOKEN_LBRACKET>>,
       <<")", TOKEN_RBRACKET>>,
       <<"{", TOKEN_LCURLYBRACKET>>,
       <<"}", TOKEN_RCURLYBRACKET>>,
       <<"[", TOKEN_LSTRAIGHTBRACKET>>,
       <<"]", TOKEN_RSTRAIGHTBRACKET>>,
       <<".", TOKEN_PERIOD>>,
       <<",", TOKEN_COMMA>>,
       <<"==", TOKEN_EQUAL>>,
       <<">", TOKEN_GREATERTHAN>>,
       <<"<", TOKEN_LESSTHAN>>,
       <<"=", TOKEN_ASSIGN>>,
       <<":", TOKEN_COLON>>,
       <<";", TOKEN_SEMICOLON>>,
       <<"-", TOKEN_MINUS>>,
       <<"+", TOKEN_PLUS>>,
       <<"*", TOKEN_ASTERISK>> >>

\* The last position of the run of characters of class that s has from
\* position i on (i - 1 when the character at i is not in class).
RECURSIVE span(_, _, _)
span(s, class, i) ==
    IF i <= Len(s) /\ SubSeq(s, i, i) \in class THEN span(s, class, i + 1) ELSE i - 1

\* The position of the first character c of s at or after position i, 0 when
\* there is none.
RECURSIVE find(_, _, _)
find(s, c, i) ==
    IF i > Len(s) THEN 0
    ELSE IF SubSeq(s, i, i) = c THEN i
    ELSE find(s, c, i + 1)

\* re.match(rule, s) for a line s (no newline in it): the length matched.
re_match(rule, s) ==
    IF rule = "\\s+" THEN span(s, Spaces, 1)
    ELSE IF rule = "\\d+" THEN span(s, Digits, 1)
    ELSE IF rule = "#.*$" THEN (IF SubSeq(s, 1, 1) = "#" THEN Len(s) ELSE 0)
    ELSE IF rule = "'.*?'" THEN (IF SubSeq(s, 1, 1) = "'" THEN find(s, "'", 2) ELSE 0)
    ELSE IF rule = "\".*?\"" THEN (IF SubSeq(s, 1, 1) = "\"" THEN find(s, "\"", 2) ELSE 0)
    ELSE IF rule = "[a-zA-Z_][a-zA-Z_0-9]*"
    THEN (IF SubSeq(s, 1, 1) \in Letters THEN span(s, Letters \cup Digits, 2) ELSE 0)
    ELSE IF Len(s) >= Len(rule) /\ SubSeq(s, 1, Len(rule)) = rule THEN Len(rule)
    ELSE 0

\* A match of the empty string at the front of the line (the faulty variant
\* the lexer properties are tested against).
_find_token_empty(s) == [type |-> TOKEN_UNKNOWN, value |-> ""]

\* tokenize._find_token: the first pattern that matches decides; a match
\* that is a keyword is a KEYWORD; with no match the whole rest is UNKNOWN.
RECURSIVE _find_token_from(_, _)
_find_token_from(s, k) ==
    IF k > Len(PATTERNS) THEN [type |-> TOKEN_UNKNOWN, value |-> s]
    ELSE IF re_match(PATTERNS[k][1], s) > 0
    THEN LET token_value == SubSeq(s, 1, re_match(PATTERNS[k][1], s)) IN
         IF token_value \in KEYWORDS
         THEN [type |-> TOKEN_KEYWORD, value |-> token_value]
         ELSE [type |-> PATTERNS[k][2], value |-> token_value]
    ELSE _find_token_from(s, k + 1)
_find_token(s) == _find_token_from(s, 1)

\* The body of the loop over the lines: the tokens of one line, which has
\* the number line_number (counted from 1).
RECURSIVE tokenize_line(_, _)
tokenize_line(line, line_number) ==
    IF line = "" THEN <<>>
    ELSE LET found == _find_token(line)
             rest == SubSeq(line, Len(found.value) + 1, Len(line))
         IN  IF found.type \notin {TOKEN_WHITESPACE, TOKEN_COMMENT}
             THEN <<Token(found.type, found.value, line_number)>>
                  \o tokenize_line(rest, line_number)
             ELSE tokenize_line(rest, line_number)

\* code.split("\n")
RECURSIVE split_lines(_)
split_lines(code) ==
    IF find(code, "\n", 1) = 0 THEN <<code>>
    ELSE <<SubSeq(code, 1, find(code, "\n", 1) - 1)>>
         \o split_lines(SubSeq(code, find(code, "\n", 1) + 1, Len(code)))

\* tokenize(code)
RECURSIVE tokenize_lines(_, _)
tokenize_lines(lines, line_number) ==
    IF lines = <<>> THEN <<>>
    ELSE tokenize_line(lines[1], line_number) \o tokenize_lines(Tail(lines), line_number + 1)
tokenize(code) == tokenize_lines(split_lines(code), 1)

\* The machine while no emitted code is run.
NoCpu == [ip |-> 0, rdi |-> 0, rax |-> 0, rcx |-> 0, bl |-> "", zf |-> FALSE,
          source |-> "", dest |-> <<>>]

\* The locals of tokenize while no call is running.
NoLex == [code |-> "", lines |-> <<>>, whole |-> "", line |-> "",
          line_number |-> 0, consumed |-> ""]

---------------------------------------------------------------------------
(* uro/ast.py *)

NODE_STATEMENT == "node_statement"
NODE_ASSIGNMENT == "node_assignment"
NODE_IDENTITY == "node_identity"
NODE_KEY == "node_key"
NODE_STRING_LITERAL == "node_string_literal"
NODE_NUMBER_LITERAL == "node_number_literal"
NODE_FUNCTION_CALL == "node_function_call"
NODE_FUNCTION == "node_function"
NODE_ARG == "node_arg"
NODE_BLOCK == "node_block"
NODE_RETURN == "node_return"
NODE_DICTIONARY == "node_dictionary"
NODE_KEY_VALUE == "node_key_value"
NODE_IMPORT == "node_import"
NODE_FOR == "node_for"
NODE_BOOLEAN == "node_boolean"
NODE_COMPARISON == "node_comparison"
NODE_EXTERN == "node_extern"
NODE_FREE == "node_free"

\* Node.__init__; Node.__eq__ compares the type only (n.type = NODE_X).
Node(node_type, content) == [type |-> node_type, content |-> content]

---------------------------------------------------------------------------
(* uro/parser.py: exceptions and results *)

NoToken == [type |-> "none", value |-> "", line |-> 0]
NoExc == [kind |-> "none", token |-> NoToken, at |-> NoToken]

\* A normal return of a parse_* method: the value and the tokens left in
\* the list (the methods pop from the list they are handed).
Ok(val, rest) == [exc |-> NoExc, val |-> val, rest |-> rest]

\* A raise.  token is what the exception carries; at is the token whose test
\* failed (the one the parser was looking at when it gave up).
Raise(kind, token, at) ==
    [exc |-> [kind |-> kind, token |-> token, at |-> at], val |-> <<>>, rest |-> <<>>]

\* raise ParseError(token): the constructor raises UnexpectedEOF instead when
\* the token it is given is the end-of-input sentinel.
ParseError(token, at) ==
    IF token.type = TOKEN_EOF
    THEN Raise("UnexpectedEOF", NoToken, at)
    ELSE Raise("ParseError", token, at)

Raised(r) == r.exc.kind # "none"

\* The empty list where a method returns either a Node or [], and Python's
\* truth test of such a value (a Node is always true, [] is false).
EMPTY_LIST == [type |-> "list", content |-> <<>>]
Truthy(v) == v.type # "list"

---------------------------------------------------------------------------
(* uro/parser.py: the recursive-descent parser.  tokens[1] is the list's     *)
(* first element (tokens[0] in the source); Tail(tokens) is the list after   *)
(* tokens.pop(0).                                                            *)

RECURSIVE cls(_, _)

parse_program(toks) ==
    IF \/ toks[1].type \in {TOKEN_IDENTIFIER, TOKEN_STRING, TOKEN_NUMBER,
                            TOKEN_LBRACKET, TOKEN_LCURLYBRACKET}
       \/ /\ toks[1].type = TOKEN_KEYWORD
          /\ toks[1].value \in {"return", "import", "fn", "for", "True",
                                "False", "extern", "free"}
    THEN cls("parse_statements", toks)
    ELSE ParseError(toks[1], toks[1])

parse_statements(toks) ==
    IF \/ toks[1].type \in {TOKEN_IDENTIFIER, TOKEN_STRING, TOKEN_NUMBER,
                            TOKEN_LBRACKET, TOKEN_LCURLYBRACKET}
       \/ /\ toks[1].type = TOKEN_KEYWORD
          /\ toks[1].value \in {"return", "import", "fn", "for", "True",
                                "False", "extern", "free"}
    THEN LET statement == cls("parse_statement", toks) IN
         IF Raised(statement) THEN statement ELSE
         LET semicolon == statement.rest[1] IN
         IF semicolon.type # TOKEN_SEMICOLON THEN ParseError(semicolon, semicolon) ELSE
         LET statements == cls("parse_statements", Tail(statement.rest)) IN
         IF Raised(statements) THEN statements ELSE
         Ok(<<Node(NODE_STATEMENT, statement.val)>> \o statements.val, statements.rest)
    ELSE IF toks[1].type \in {TOKEN_EOF, TOKEN_RCURLYBRACKET}
    THEN Ok(<<>>, toks)
    ELSE ParseError(toks[1], toks[1])

parse_statement(toks) ==
    IF \/ toks[1].type \in {TOKEN_STRING, TOKEN_NUMBER, TOKEN_LBRACKET,
                            TOKEN_IDENTIFIER, TOKEN_LCURLYBRACKET}
       \/ /\ toks[1].type = TOKEN_KEYWORD
          /\ toks[1].value \in {"fn", "True", "False"}
    THEN cls("parse_expression", toks)
    ELSE IF toks[1].type = TOKEN_KEYWORD /\ toks[1].value = "for"
    THEN cls("parse_for", toks)
    ELSE IF toks[1].type = TOKEN_KEYWORD /\ toks[1].value = "return"
    THEN cls("parse_return_cont", Tail(toks))
    ELSE IF toks[1].type = TOKEN_KEYWORD /\ toks[1].value = "import"
    THEN cls("parse_import", toks)
    ELSE IF toks[1].type = TOKEN_KEYWORD /\ toks[1].value = "free"
    THEN cls("parse_free", toks)
    ELSE ParseError(toks[1], toks[1])

parse_extern(toks) ==
    IF toks[1].type = TOKEN_KEYWORD /\ toks[1].value = "extern"
    THEN LET lbracket == toks[2]
             string == toks[3]
             comma == toks[4]
             number == toks[5]
             rbracket == toks[6]
         IN  IF lbracket.type # TOKEN_LBRACKET THEN ParseError(lbracket, lbracket)
             ELSE IF string.type # TOKEN_STRING THEN ParseError(string, string)
             ELSE IF comma.type # TOKEN_COMMA THEN ParseError(string, comma)
             ELSE IF number.type # TOKEN_NUMBER THEN ParseError(number, number)
             ELSE IF rbracket.type # TOKEN_RBRACKET THEN ParseError(rbracket, rbracket)
             ELSE Ok(Node(NODE_EXTERN, <<string, number>>), SubSeq(toks, 7, Len(toks)))
    ELSE ParseError(toks[1], toks[1])

parse_free(toks) ==
    IF toks[1].type = TOKEN_KEYWORD /\ toks[1].value = "free"
    THEN LET lbracket == toks[2] IN
         IF lbracket.type # TOKEN_LBRACKET THEN ParseError(lbracket, lbracket) ELSE
         LET identity == cls("parse_identity", SubSeq(toks, 3, Len(toks))) IN
         IF Raised(identity) THEN identity ELSE
         LET rbracket == identity.rest[1] IN
         IF rbracket.type # TOKEN_RBRACKET THEN ParseError(rbracket, rbracket) ELSE
         Ok(Node(NODE_FREE, identity.val), Tail(identity.rest))
    ELSE ParseError(toks[1], toks[1])

parse_import(toks) ==
    IF toks[1].type = TOKEN_KEYWORD /\ toks[1].value = "import"
    THEN LET module == toks[2] IN
         IF module.type # TOKEN_STRING THEN ParseError(module, module) ELSE
         Ok(Node(NODE_IMPORT, module), SubSeq(toks, 3, Len(toks)))
    ELSE ParseError(toks[1], toks[1])

parse_for(toks) ==
    IF toks[1].type = TOKEN_KEYWORD /\ toks[1].value = "for"
    THEN LET obj == cls("parse_identity", Tail(toks)) IN
         IF Raised(obj) THEN obj ELSE
         LET keyword_in == obj.rest[1] IN
         IF keyword_in.type # TOKEN_KEYWORD \/ keyword_in.value # "in"
         THEN ParseError(keyword_in, keyword_in) ELSE
         LET iterable == cls("parse_identity", Tail(obj.rest)) IN
         IF Raised(iterable) THEN iterable ELSE
         LET block == cls("parse_block", iterable.rest) IN
         IF Raised(block) THEN block ELSE
         Ok(Node(NODE_FOR, <<obj.val, iterable.val, block.val>>), block.rest)
    ELSE ParseError(toks[1], toks[1])

parse_return_cont(toks) ==
    IF \/ toks[1].type \in {TOKEN_STRING, TOKEN_NUMBER, TOKEN_LBRACKET,
                            TOKEN_IDENTIFIER, TOKEN_LCURLYBRACKET}
       \/ /\ toks[1].type = TOKEN_KEYWORD
          /\ toks[1].value \in {"fn", "True", "False"}
    THEN LET expression == cls("parse_expression", toks) IN
         IF Raised(expression) THEN expression ELSE
         Ok(Node(NODE_RETURN, expression.val), expression.rest)
    ELSE IF toks[1].type = TOKEN_SEMICOLON
    THEN Ok(Node(NODE_RETURN, <<>>), toks)
    ELSE ParseError(toks[1], toks[1])

parse_assignment_or_identity_or_function_call(toks) ==
    IF toks[1].type = TOKEN_ASSIGN
    THEN cls("parse_assignment_cont", toks)
    ELSE IF toks[1].type \in {TOKEN_LBRACKET, TOKEN_RBRACKET, TOKEN_RSTRAIGHTBRACKET,
                              TOKEN_COMMA, TOKEN_SEMICOLON, TOKEN_COLON,
                              TOKEN_RCURLYBRACKET, TOKEN_EQUAL, TOKEN_GREATERTHAN,
                              TOKEN_LESSTHAN}
    THEN cls("parse_identity_or_function_call", toks)
    ELSE ParseError(toks[1], toks[1])

parse_assignment_cont(toks) ==
    IF toks[1].type = TOKEN_ASSIGN
    THEN LET expression == cls("parse_expression", Tail(toks)) IN
         IF Raised(expression) THEN expression ELSE
         Ok(Node(NODE_ASSIGNMENT, <<expression.val>>), expression.rest)
    ELSE ParseError(toks[1], toks[1])

parse_identity(toks) ==
    IF toks[1].type = TOKEN_IDENTIFIER
    THEN LET identifier == toks[1]
             keys == cls("parse_keys", Tail(toks))
         IN  IF Raised(keys) THEN keys ELSE
             Ok(Node(NODE_IDENTITY, <<identifier, keys.val>>), keys.rest)
    ELSE ParseError(toks[1], toks[1])

parse_keys(toks) ==
    IF toks[1].type = TOKEN_LSTRAIGHTBRACKET
    THEN LET key == cls("parse_key", toks) IN
         IF Raised(key) THEN key ELSE
         LET keys == cls("parse_keys", key.rest) IN
         IF Raised(keys) THEN keys ELSE
         Ok(<<Node(NODE_KEY, key.val)>> \o keys.val, keys.rest)
    ELSE IF \/ toks[1].type \in {TOKEN_SEMICOLON, TOKEN_ASSIGN, TOKEN_RBRACKET,
                                 TOKEN_RSTRAIGHTBRACKET, TOKEN_LBRACKET, TOKEN_COMMA,
                                 TOKEN_COLON, TOKEN_LCURLYBRACKET, TOKEN_RCURLYBRACKET,
                                 TOKEN_EQUAL, TOKEN_GREATERTHAN, TOKEN_LESSTHAN}
            \/ (toks[1].type = TOKEN_KEYWORD /\ toks[1].value = "in")
    THEN Ok(<<>>, toks)
    ELSE ParseError(toks[1], toks[1])

\* The closing bracket is checked with an assert, not with ParseError.
parse_key(toks) ==
    IF toks[1].type = TOKEN_LSTRAIGHTBRACKET
    THEN LET expression == cls("parse_expression", Tail(toks)) IN
         IF Raised(expression) THEN expression ELSE
         LET rstraightbracket == expression.rest[1] IN
         IF rstraightbracket.type # TOKEN_RSTRAIGHTBRACKET
         THEN Raise("AssertionError", NoToken, rstraightbracket) ELSE
         Ok(expression.val, Tail(expression.rest))
    ELSE ParseError(toks[1], toks[1])

\* A tail that splices the operands of a comparison on the right into the
\* new node instead of nesting it (the faulty variant the associativity
\* property is tested against).
with_comparison_flat(node, toks) ==
    LET comparison == cls("parse_comparison_cont", toks) IN
    IF Raised(comparison) THEN comparison
    ELSE IF Truthy(comparison.val)
    THEN IF comparison.val.content[2].type = NODE_COMPARISON
         THEN Ok(Node(NODE_COMPARISON,
                      <<node, comparison.val.content[1]>>
                      \o comparison.val.content[2].content), comparison.rest)
         ELSE Ok(Node(NODE_COMPARISON, <<node>> \o comparison.val.content), comparison.rest)
    ELSE Ok(node, comparison.rest)

\* The tail every alternative of parse_expression but extern ends with:
\*     comparison = cls.cls("parse_comparison_cont", tokens)
\*     if comparison: return Node(NODE_COMPARISON, [node] + comparison.content)
\*     else: return node
with_comparison(node, toks) ==
    LET comparison == cls("parse_comparison_cont", toks) IN
    IF Raised(comparison) THEN comparison
    ELSE IF Truthy(comparison.val)
    THEN Ok(Node(NODE_COMPARISON, <<node>> \o comparison.val.content), comparison.rest)
    ELSE Ok(node, comparison.rest)

parse_expression(toks) ==
    IF toks[1].type = TOKEN_STRING
    THEN with_comparison(Node(NODE_STRING_LITERAL, toks[1]), Tail(toks))
    ELSE IF toks[1].type = TOKEN_NUMBER
    THEN with_comparison(Node(NODE_NUMBER_LITERAL, toks[1]), Tail(toks))
    ELSE IF toks[1].type = TOKEN_IDENTIFIER
    THEN LET identity == cls("parse_identity", toks) IN
         IF Raised(identity) THEN identity ELSE
         LET _node == cls("parse_assignment_or_identity_or_function_call", identity.rest) IN
         IF Raised(_node) THEN _node ELSE
         LET node_type == _node.val.type
             content == <<identity.val.content>> \o _node.val.content
         IN  with_comparison(Node(node_type, content), _node.rest)
    ELSE IF toks[1].type = TOKEN_LBRACKET
    THEN LET expression == cls("parse_expression", Tail(toks)) IN
         IF Raised(expression) THEN expression ELSE
         LET rbracket == expression.rest[1] IN
         IF rbracket.type # TOKEN_RBRACKET THEN ParseError(rbracket, rbracket) ELSE
         with_comparison(expression.val, Tail(expression.rest))
    ELSE IF toks[1].type = TOKEN_KEYWORD /\ toks[1].value = "fn"
    THEN LET node == cls("parse_function", toks) IN
         IF Raised(node) THEN node ELSE with_comparison(node.val, node.rest)
    ELSE IF toks[1].type = TOKEN_LCURLYBRACKET
    THEN LET node == cls("parse_dictionary", toks) IN
         IF Raised(node) THEN node ELSE with_comparison(node.val, node.rest)
    ELSE IF toks[1].type = TOKEN_KEYWORD /\ toks[1].value \in {"True", "False"}
    THEN LET node == cls("parse_boolean", toks) IN
         IF Raised(node) THEN node ELSE with_comparison(node.val, node.rest)
    ELSE IF toks[1].type = TOKEN_KEYWORD /\ toks[1].value = "extern"
    THEN cls("parse_extern", toks)
    ELSE ParseError(toks[1], toks[1])

parse_identity_or_function_call(toks) ==
    IF toks[1].type = TOKEN_LBRACKET
    THEN cls("parse_function_call_cont", toks)
    ELSE IF toks[1].type \in {TOKEN_ASSIGN, TOKEN_RBRACKET, TOKEN_RSTRAIGHTBRACKET,
                              TOKEN_COMMA, TOKEN_SEMICOLON, TOKEN_COLON,
                              TOKEN_RCURLYBRACKET, TOKEN_EQUAL, TOKEN_GREATERTHAN,
                              TOKEN_LESSTHAN}
    THEN cls("parse_identity_cont", toks)
    ELSE ParseError(toks[1], toks[1])

parse_identity_cont(toks) ==
    IF toks[1].type \in {TOKEN_ASSIGN, TOKEN_RBRACKET, TOKEN_RSTRAIGHTBRACKET,
                         TOKEN_COMMA, TOKEN_SEMICOLON, TOKEN_COLON,
                         TOKEN_RCURLYBRACKET, TOKEN_EQUAL, TOKEN_GREATERTHAN,
                         TOKEN_LESSTHAN}
    THEN Ok(Node(NODE_IDENTITY, <<>>), toks)
    ELSE ParseError(toks[1], toks[1])

parse_function_call_cont(toks) ==
    IF toks[1].type = TOKEN_LBRACKET
    THEN LET args == cls("parse_args", Tail(toks)) IN
         IF Raised(args) THEN args ELSE
         LET rbracket == args.rest[1] IN
         IF rbracket.type # TOKEN_RBRACKET THEN ParseError(rbracket, rbracket) ELSE
         Ok(Node(NODE_FUNCTION_CALL, <<args.val>>), Tail(args.rest))
    ELSE ParseError(toks[1], toks[1])

parse_args(toks) ==
    IF \/ toks[1].type \in {TOKEN_STRING, TOKEN_NUMBER, TOKEN_LBRACKET,
                            TOKEN_IDENTIFIER, TOKEN_LCURLYBRACKET}
       \/ /\ toks[1].type = TOKEN_KEYWORD
          /\ toks[1].value \in {"fn", "True", "False"}
    THEN LET arg == cls("parse_arg", toks) IN
         IF Raised(arg) THEN arg ELSE
         LET later_args == cls("parse_later_args", arg.rest) IN
         IF Raised(later_args) THEN later_args ELSE
         Ok(<<arg.val>> \o later_args.val, later_args.rest)
    ELSE IF toks[1].type = TOKEN_RBRACKET
    THEN Ok(<<>>, toks)
    ELSE ParseError(toks[1], toks[1])

parse_later_args(toks) ==
    IF toks[1].type = TOKEN_COMMA
    THEN cls("parse_args", Tail(toks))
    ELSE IF toks[1].type = TOKEN_RBRACKET
    THEN Ok(<<>>, toks)
    ELSE ParseError(toks[1], toks[1])

parse_arg(toks) ==
    IF \/ toks[1].type \in {TOKEN_STRING, TOKEN_NUMBER, TOKEN_LBRACKET,
                            TOKEN_IDENTIFIER, TOKEN_LCURLYBRACKET}
       \/ /\ toks[1].type = TOKEN_KEYWORD
          /\ toks[1].value \in {"fn", "True", "False"}
    THEN LET arg == cls("parse_expression", toks) IN
         IF Raised(arg) THEN arg ELSE Ok(Node(NODE_ARG, arg.val), arg.rest)
    ELSE ParseError(toks[1], toks[1])

parse_function(toks) ==
    IF toks[1].type = TOKEN_KEYWORD /\ toks[1].value = "fn"
    THEN LET lbracket == toks[2] IN
         IF lbracket.type # TOKEN_LBRACKET THEN ParseError(lbracket, lbracket) ELSE
         LET args == cls("parse_args", SubSeq(toks, 3, Len(toks))) IN
         IF Raised(args) THEN args ELSE
         LET rbracket == args.rest[1] IN
         IF rbracket.type # TOKEN_RBRACKET THEN ParseError(rbracket, rbracket) ELSE
         LET block == cls("parse_block", Tail(args.rest)) IN
         IF Raised(block) THEN block ELSE
         Ok(Node(NODE_FUNCTION, <<args.val, block.val>>), block.rest)
    ELSE ParseError(toks[1], toks[1])

parse_block(toks) ==
    IF toks[1].type = TOKEN_LCURLYBRACKET
    THEN LET statements == cls("parse_statements", Tail(toks)) IN
         IF Raised(statements) THEN statements ELSE
         LET rcurlybracket == statements.rest[1] IN
         IF rcurlybracket.type # TOKEN_RCURLYBRACKET
         THEN ParseError(rcurlybracket, rcurlybracket) ELSE
         Ok(Node(NODE_BLOCK, statements.val), Tail(statements.rest))
    ELSE ParseError(toks[1], toks[1])

parse_dictionary(toks) ==
    IF toks[1].type = TOKEN_LCURLYBRACKET
    THEN LET key_values == cls("parse_key_values", Tail(toks)) IN
         IF Raised(key_values) THEN key_values ELSE
         LET rcurlybracket == key_values.rest[1] IN
         IF rcurlybracket.type # TOKEN_RCURLYBRACKET
         THEN ParseError(rcurlybracket, rcurlybracket) ELSE
         Ok(Node(NODE_DICTIONARY, key_values.val), Tail(key_values.rest))
    ELSE ParseError(toks[1], toks[1])

parse_key_values(toks) ==
    IF \/ toks[1].type \in {TOKEN_STRING, TOKEN_NUMBER, TOKEN_LBRACKET,
                            TOKEN_IDENTIFIER, TOKEN_LCURLYBRACKET}
       \/ /\ toks[1].type = TOKEN_KEYWORD
          /\ toks[1].value \in {"fn", "True", "False"}
    THEN LET key_value == cls("parse_key_value", toks) IN
         IF Raised(key_value) THEN key_value ELSE
         LET later_key_values == cls("parse_later_key_values", key_value.rest) IN
         IF Raised(later_key_values) THEN later_key_values ELSE
         Ok(<<key_value.val>> \o later_key_values.val, later_key_values.rest)
    ELSE IF toks[1].type = TOKEN_RCURLYBRACKET
    THEN Ok(<<>>, toks)
    ELSE ParseError(toks[1], toks[1])

parse_later_key_values(toks) ==
    IF toks[1].type = TOKEN_COMMA
    THEN cls("parse_key_values", Tail(toks))
    ELSE IF toks[1].type = TOKEN_RCURLYBRACKET
    THEN Ok(<<>>, toks)
    ELSE ParseError(toks[1], toks[1])

parse_key_value(toks) ==
    IF \/ toks[1].type \in {TOKEN_STRING, TOKEN_NUMBER, TOKEN_LBRACKET,
                            TOKEN_IDENTIFIER, TOKEN_LCURLYBRACKET}
       \/ /\ toks[1].type = TOKEN_KEYWORD
          /\ toks[1].value \in {"fn", "True", "False"}
    THEN LET key == cls("parse_expression", toks) IN
         IF Raised(key) THEN key ELSE
         LET colon == key.rest[1] IN
         IF colon.type # TOKEN_COLON THEN ParseError(colon, colon) ELSE
         LET value == cls("parse_expression", Tail(key.rest)) IN
         IF Raised(value) THEN value ELSE
         Ok(Node(NODE_KEY_VALUE, <<key.val, value.val>>), value.rest)
    ELSE ParseError(toks[1], toks[1])

parse_boolean(toks) ==
    IF toks[1].type = TOKEN_KEYWORD /\ toks[1].value \in {"True", "False"}
    THEN Ok(Node(NODE_BOOLEAN, toks[1]), Tail(toks))
    ELSE ParseError(toks[1], toks[1])

parse_comparison_cont(toks) ==
    IF toks[1].type = TOKEN_EQUAL
    THEN LET expression == cls("parse_expression", Tail(toks)) IN
         IF Raised(expression) THEN expression ELSE
         Ok(Node(NODE_COMPARISON, <<toks[1], expression.val>>), expression.rest)
    ELSE IF toks[1].type = TOKEN_GREATERTHAN
    THEN LET expression == cls("parse_expression", Tail(toks)) IN
         IF Raised(expression) THEN expression ELSE
         Ok(Node(NODE_COMPARISON, <<toks[1], expression.val>>), expression.rest)
    ELSE IF toks[1].type = TOKEN_LESSTHAN
    THEN LET expression == cls("parse_expression", Tail(toks)) IN
         IF Raised(expression) THEN expression ELSE
         Ok(Node(NODE_COMPARISON, <<toks[1], expression.val>>), expression.rest)
    ELSE IF toks[1].type \in {TOKEN_ASSIGN, TOKEN_RBRACKET, TOKEN_RSTRAIGHTBRACKET,
                              TOKEN_COMMA, TOKEN_SEMICOLON, TOKEN_COLON,
                              TOKEN_RCURLYBRACKET}
    THEN Ok(EMPTY_LIST, toks)
    ELSE ParseError(toks[1], toks[1])

\* cls.parse_x(tokens): the call of one parsing method from another.
cls(method, toks) ==
    CASE method = "parse_program" -> parse_program(toks)
      [] method = "parse_statements" -> parse_statements(toks)
      [] method = "parse_statement" -> parse_statement(toks)
      [] method = "parse_extern" -> parse_extern(toks)
      [] method = "parse_free" -> parse_free(toks)
      [] method = "parse_import" -> parse_import(toks)
      [] method = "parse_for" -> parse_for(toks)
      [] method = "parse_return_cont" -> parse_return_cont(toks)
      [] method = "parse_assignment_or_identity_or_function_call" -> parse_assignment_or_identity_or_function_call(toks)
      [] method = "parse_assignment_cont" -> parse_assignment_cont(toks)
      [] method = "parse_identity" -> parse_identity(toks)
      [] method = "parse_keys" -> parse_keys(toks)
      [] method = "parse_key" -> parse_key(toks)
      [] method = "parse_expression" -> parse_expression(toks)
      [] method = "parse_identity_or_function_call" -> parse_identity_or_function_call(toks)
      [] method = "parse_identity_cont" -> parse_identity_cont(toks)
      [] method = "parse_function_call_cont" -> parse_function_call_cont(toks)
      [] method = "parse_args" -> parse_args(toks)
      [] method = "parse_later_args" -> parse_later_args(toks)
      [] method = "parse_arg" -> parse_arg(toks)
      [] method = "parse_function" -> parse_function(toks)
      [] method = "parse_block" -> parse_block(toks)
      [] method = "parse_dictionary" -> parse_dictionary(toks)
      [] method = "parse_key_values" -> parse_key_values(toks)
      [] method = "parse_later_key_values" -> parse_later_key_values(toks)
      [] method = "parse_key_value" -> parse_key_value(toks)
      [] method = "parse_boolean" -> parse_boolean(toks)
      [] method = "parse_comparison_cont" -> parse_comparison_cont(toks)

\* Parser.line_range[1]: the last buffered token's line, 0 for an empty buffer.
line_range_last(buffer) == IF buffer # <<>> THEN buffer[Len(buffer)].line ELSE 0

\* self._tokens + [Token(TOKEN_EOF, TOKEN_EOF, self.line_range[1])]
with_eof(self_tokens) ==
    self_tokens \o <<Token(TOKEN_EOF, TOKEN_EOF, line_range_last(self_tokens))>>

\* Parser.add_tokens: self._tokens.extend(tokens)
add_tokens(self_tokens, new_tokens) == self_tokens \o new_tokens

\* A reset that forgets to empty the buffer (the faulty variant the buffer
\* properties are tested against).
reset_keeps_buffer(self_tokens) == self_tokens

\* Parser.reset: self._tokens = []
reset(self_tokens) == <<>>

\* Parser.parse on the buffer self._tokens.  The result gives the exception
\* raised (if any), the value returned, and the parser's fields afterwards.
\* tokens.pop() takes the last element of the list parse_program leaves.
parse(self_tokens, self_ast) ==
    LET toks == with_eof(self_tokens)
        program == cls("parse_program", toks)
    IN  IF Raised(program)
        THEN [exc |-> program.exc, ret |-> "none", tokens |-> self_tokens, ast |-> self_ast]
        ELSE IF program.rest[Len(program.rest)].type = TOKEN_EOF
        THEN [exc |-> NoExc, ret |-> "True", tokens |-> reset(self_tokens), ast |-> program.val]
        ELSE [exc |-> NoExc, ret |-> "False", tokens |-> self_tokens, ast |-> self_ast]

---------------------------------------------------------------------------
(* uro/ir.py: lowering of the AST to the IR, a list of (op, args). *)

IR_SET_NAME == "ir_set_name"
IR_PUSH_REFERENCE == "ir_push_reference"
IR_MAKE_STRING == "ir_make_string"
IR_MAKE_NUMBER == "ir_make_number"
IR_MAKE_BOOLEAN == "ir_make_boolean"
IR_MAKE_FUNCTION == "ir_make_function"
IR_CALL_FUNCTION == "ir_call_function"
IR_EXTERN == "ir_extern"
IR_NOP == "ir_nop"

\* One IR tuple (op, args).
Instr(op, args) == [op |-> op, args |-> args]

\* A normal return and a raise of a lowering method.
IrOk(code) == [exc |-> "none", ir |-> code]
IrRaise(kind) == [exc |-> kind, ir |-> <<>>]

DigitValue(c) ==
    CASE c = "0" -> 0 [] c = "1" -> 1 [] c = "2" -> 2 [] c = "3" -> 3 [] c = "4" -> 4
      [] c = "5" -> 5 [] c = "6" -> 6 [] c = "7" -> 7 [] c = "8" -> 8 [] c = "9" -> 9

\* Python's int(s) for a string of decimal digits (what a NUMBER token holds).
RECURSIVE int(_)
int(s) ==
    IF Len(s) = 1 THEN DigitValue(s)
    ELSE 10 * int(SubSeq(s, 1, Len(s) - 1)) + DigitValue(SubSeq(s, Len(s), Len(s)))

QUOTES == {"'", "\""}

\* _remove_quotes: the assert, then s[1:-1].
_remove_quotes(s) ==
    IF Head(s) \in QUOTES /\ SubSeq(s, Len(s), Len(s)) \in QUOTES
    THEN [exc |-> "none", val |-> SubSeq(s, 2, Len(s) - 1)]
    ELSE [exc |-> "AssertionError", val |-> ""]

RECURSIVE _generate_program(_), _generate_statement(_), _generate_assignment(_),
          _generate_expression(_), _generate_function(_), _generate_function_call(_),
          _generate_args(_)

_generate_program(root) ==
    IF root = <<>> THEN IrOk(<<>>) ELSE
    LET statement_ir == _generate_statement(root[1]) IN
    IF statement_ir.exc # "none" THEN statement_ir ELSE
    LET later == _generate_program(Tail(root)) IN
    IF later.exc # "none" THEN later ELSE IrOk(statement_ir.ir \o later.ir)

_generate_statement(node) ==
    LET statement == node.content IN
    IF statement.type = NODE_ASSIGNMENT THEN _generate_assignment(statement)
    ELSE IF statement.type = NODE_FUNCTION_CALL THEN _generate_function_call(statement)
    ELSE _generate_expression(statement)

_generate_assignment(node) ==
    LET identity_node == node.content[1]
        expression_node == node.content[2]
        identity_token == identity_node[1]
        keys_tokens == identity_node[2]
        ir_expression == _generate_expression(expression_node)
    IN  IF ir_expression.exc # "none" THEN ir_expression
        ELSE IF keys_tokens # <<>> THEN IrRaise("NotImplementedError")
        ELSE IrOk(ir_expression.ir \o <<Instr(IR_SET_NAME, <<identity_token.value>>)>>)

\* The args of PUSH_REFERENCE are the name itself, a str, not a tuple
\* holding it.
_generate_identity(node) ==
    LET identity_token == node.content[1][1]
        keys_tokens == node.content[1][2]
    IN  IF keys_tokens # <<>> THEN IrRaise("NotImplementedError")
        ELSE IrOk(<<Instr(IR_PUSH_REFERENCE, identity_token.value)>>)

_generate_string_literal(node) ==
    LET string == _remove_quotes(node.content.value) IN
    IF string.exc # "none" THEN IrRaise(string.exc)
    ELSE IrOk(<<Instr(IR_MAKE_STRING, <<string.val>>)>>)

_generate_number_literal(node) ==
    IrOk(<<Instr(IR_MAKE_NUMBER, <<int(node.content.value)>>)>>)

_generate_boolean(node) ==
    IrOk(<<Instr(IR_MAKE_BOOLEAN, <<node.content.value = "True">>)>>)

_generate_extern(node) ==
    LET name_token == node.content[1]
        arg_len_token == node.content[2]
        name == _remove_quotes(name_token.value)
    IN  IF name.exc # "none" THEN IrRaise(name.exc)
        ELSE IrOk(<<Instr(IR_EXTERN, <<name.val, int(arg_len_token.value)>>)>>)

_generate_expression(node) ==
    IF node.type = NODE_IDENTITY THEN _generate_identity(node)
    ELSE IF node.type = NODE_STRING_LITERAL THEN _generate_string_literal(node)
    ELSE IF node.type = NODE_NUMBER_LITERAL THEN _generate_number_literal(node)
    ELSE IF node.type = NODE_BOOLEAN THEN _generate_boolean(node)
    ELSE IF node.type = NODE_FUNCTION THEN _generate_function(node)
    ELSE IF node.type = NODE_FUNCTION_CALL THEN _generate_function_call(node)
    ELSE IF node.type = NODE_EXTERN THEN _generate_extern(node)
    ELSE IrRaise("NotImplementedError")

\* assert all(arg.content == NODE_IDENTITY ...); the parameter names are the
\* identifier of each [identifier, keys] pair, whatever the keys are.
_generate_function(node) ==
    LET args_node == node.content[1]
        block_node == node.content[2]
    IN  IF \E i \in DOMAIN args_node : args_node[i].content.type # NODE_IDENTITY
        THEN IrRaise("AssertionError") ELSE
        LET args == [i \in DOMAIN args_node |-> args_node[i].content.content[1][1].value]
            block == _generate_program(block_node.content)
        IN  IF block.exc # "none" THEN block
            ELSE IrOk(<<Instr(IR_MAKE_FUNCTION, <<args, block.ir>>)>>)

\* [ir for a in args_node for ir in self._generate_expression(a.content)]
_generate_args(args_node) ==
    IF args_node = <<>> THEN IrOk(<<>>) ELSE
    LET first == _generate_expression(args_node[1].content) IN
    IF first.exc # "none" THEN first ELSE
    LET later == _generate_args(Tail(args_node)) IN
    IF later.exc # "none" THEN later ELSE IrOk(first.ir \o later.ir)

_generate_function_call(node) ==
    LET identifier_node == node.content[1]
        args_node == node.content[2]
        name == identifier_node[1].value
        args == _generate_args(args_node)
    IN  IF args.exc # "none" THEN args
        ELSE IrOk(<<Instr(IR_CALL_FUNCTION, <<name, args.ir>>)>>)

\* IRGenerator(ast).ir
IRGenerator_ir(self_ast) == _generate_program(self_ast)

---------------------------------------------------------------------------
(* uro/generator.py: Context and GeneratorX86_64Linux.  A dict is a function *)
(* on its keys; the two dicts whose order asm reads (_functions, _data) are  *)
(* sequences of [name, lines] entries in insertion order.                    *)

\* Context.__init__ (a context with no parent has parent = <<>>).
Context(name, parent) ==
    [name |-> name, variables |-> <<>>, parent |-> parent, position |-> 0]

\* Context.add_variable
add_variable(ctx, name) ==
    [ctx EXCEPT !.variables = (name :> ctx.position) @@ ctx.variables]

\* A stack pointer that moves up (the faulty variant the offset properties
\* are tested against).
move_stack_pointer_up(ctx) == [ctx EXCEPT !.position = ctx.position + 8]

\* Context.move_stack_pointer
move_stack_pointer(ctx) == [ctx EXCEPT !.position = ctx.position - 8]

\* Context.get_position: self._variables.get(name), and "if not position"
\* raises for None and for 0 alike.
get_position(ctx, name) ==
    IF name \notin DOMAIN ctx.variables THEN [exc |-> "ValueError", val |-> 0]
    ELSE IF ctx.variables[name] = 0 THEN [exc |-> "ValueError", val |-> 0]
    ELSE [exc |-> "none", val |-> ctx.variables[name]]

\* Context.child: Context(parent=self); the name is left at its default,
\* None.
child(ctx) == Context("None", ctx)

\* Context.variables: with a parent the property reads self.parent, an
\* attribute no Context has (__init__ sets _parent), which raises
\* AttributeError; a Context object is truthy, so "if self._parent" is true
\* exactly when a parent was given.
variables(ctx) ==
    IF ctx.parent # <<>> THEN [exc |-> "AttributeError", val |-> <<>>]
    ELSE [exc |-> "none", val |-> ctx.variables]

\* GeneratorX86_64Linux.__init__
GeneratorX86_64Linux ==
    [global |-> "main",
     extern |-> <<>>,
     functions |-> <<[name |-> "main", lines |-> << <<"", "mov", "rbp, rsp">> >>],
                     [name |-> "exit", lines |-> << <<"", "mov", "rax, 60">>,
                                                    <<"", "mov", "rdi, [rsp+8]">>,
                                                    <<"", "syscall", "">> >>]>>,
     data |-> <<>>,
     labels |-> <<>>,
     context |-> Context("main", <<>>)]

\* Generator(): the factory returns a GeneratorX86_64Linux.
Generator == GeneratorX86_64Linux

\* A raise that leaves the context offset moved by a slot (the faulty variant
\* the unchanged-on-error properties are tested against).
GenRaiseMoved(kind, g) ==
    [exc |-> kind, gen |-> [g EXCEPT !.context = move_stack_pointer(g.context)]]

\* A normal return and a raise of a generator method, with the generator as
\* the method leaves it.
GenOk(g) == [exc |-> "none", gen |-> g]
GenRaise(kind, g) == [exc |-> kind, gen |-> g]

\* d[name].append(line) and d[name] = lines on an insertion-ordered dict.
dict_append(d, name, line) ==
    [i \in DOMAIN d |-> IF d[i].name = name
                        THEN [d[i] EXCEPT !.lines = Append(d[i].lines, line)]
                        ELSE d[i]]
dict_set(d, name, lines) ==
    IF \E i \in DOMAIN d : d[i].name = name
    THEN [i \in DOMAIN d |-> IF d[i].name = name THEN [d[i] EXCEPT !.lines = lines] ELSE d[i]]
    ELSE Append(d, [name |-> name, lines |-> lines])
dict_get(d, name) == d[CHOOSE i \in DOMAIN d : d[i].name = name].lines

\* self._functions[self._context.name].append(line)
emit(g, line) == [g EXCEPT !.functions = dict_append(g.functions, g.context.name, line)]

RECURSIVE emit_all(_, _)
emit_all(g, lines) ==
    IF lines = <<>> THEN g ELSE emit_all(emit(g, lines[1]), Tail(lines))

\* f"{number:06d}": decimal, padded with zeros on the left to six digits.
RECURSIVE zero_pad(_, _)
zero_pad(s, width) == IF Len(s) >= width THEN s ELSE zero_pad("0" \o s, width)

\* A label request that leaves the counter where it was (the faulty variant
\* the label properties are tested against).
_next_label_stuck(g, prefix) ==
    LET number == IF prefix \in DOMAIN g.labels THEN g.labels[prefix] ELSE 1
    IN  [label |-> prefix \o "_" \o zero_pad(ToString(number), 6),
         gen |-> [g EXCEPT !.labels = (prefix :> number) @@ g.labels]]

\* _Generator._next_label: the label and the generator with the counter moved.
_next_label(g, prefix) ==
    LET number == IF prefix \in DOMAIN g.labels THEN g.labels[prefix] ELSE 1
        label == prefix \o "_" \o zero_pad(ToString(number), 6)
    IN  [label |-> label,
         gen |-> [g EXCEPT !.labels = (prefix :> (number + 1)) @@ g.labels]]

\* A thunk that reads its arguments one slot too low: the first load reads
\* the return address (the faulty variant the thunk layout is tested against).
thunk_lines_slot_low(name, param_len) ==
    << <<"", "push", "rbp">> >>
    \o [k \in 1..param_len |-> <<"", "push", <<"rdi", "rsi", "rdx", "rcx">>[k]>>]
    \o << <<"", "mov", "rbp, rsp">> >>
    \o [k \in 1..param_len |->
          <<"", "mov", <<"rdi", "rsi", "rdx", "rcx">>[k] \o ", [rbp+"
                       \o ToString(8 * param_len + 8 * k) \o "]">>]
    \o << <<"", "call", name>>, <<"", "mov", "rsp, rbp">> >>
    \o [k \in 1..param_len |->
          <<"", "pop", <<"rdi", "rsi", "rdx", "rcx">>[param_len + 1 - k]>>]
    \o << <<"", "pop", "rbp">>, <<"", "ret", "">> >>

\* The body of the thunk extern builds at its label (generator.py 220-253).
thunk_lines(name, param_len) ==
    << <<"", "push", "rbp">> >>
    \o (IF param_len > 0 THEN << <<"", "push", "rdi">> >> ELSE <<>>)
    \o (IF param_len > 1 THEN << <<"", "push", "rsi">> >> ELSE <<>>)
    \o (IF param_len > 2 THEN << <<"", "push", "rdx">> >> ELSE <<>>)
    \o (IF param_len > 3 THEN << <<"", "push", "rcx">> >> ELSE <<>>)
    \o << <<"", "mov", "rbp, rsp">> >>
    \o (IF param_len > 0
        THEN << <<"", "mov", "rdi, [rbp+" \o ToString(16 + 8 * param_len) \o "]">> >> ELSE <<>>)
    \o (IF param_len > 1
        THEN << <<"", "mov", "rsi, [rbp+" \o ToString(24 + 8 * param_len) \o "]">> >> ELSE <<>>)
    \o (IF param_len > 2
        THEN << <<"", "mov", "rdx, [rbp+" \o ToString(32 + 8 * param_len) \o "]">> >> ELSE <<>>)
    \o (IF param_len > 3
        THEN << <<"", "mov", "rcx, [rbp+" \o ToString(40 + 8 * param_len) \o "]">> >> ELSE <<>>)
    \o << <<"", "call", name>>, <<"", "mov", "rsp, rbp">> >>
    \o (IF param_len > 3 THEN << <<"", "pop", "rcx">> >> ELSE <<>>)
    \o (IF param_len > 2 THEN << <<"", "pop", "rdx">> >> ELSE <<>>)
    \o (IF param_len > 1 THEN << <<"", "pop", "rsi">> >> ELSE <<>>)
    \o (IF param_len > 0 THEN << <<"", "pop", "rdi">> >> ELSE <<>>)
    \o << <<"", "pop", "rbp">>, <<"", "ret", "">> >>

\* A membership test that never finds the name (the faulty variant the
\* declared-once properties are tested against).
in_list_never(x, list) == FALSE

\* list membership: name in self._extern
in_list(x, list) == \E i \in DOMAIN list : list[i] = x

\* GeneratorX86_64Linux.extern: the parameter budget is tested before the
\* test for a name that is already declared.
extern(g, name, param_len) ==
    IF param_len > 4 THEN GenRaise("NotImplementedError", g)
    ELSE IF in_list(name, g.extern) THEN GenOk(g)
    ELSE LET nl == _next_label(g, "f")
             label == nl.label
             g1 == [nl.gen EXCEPT !.extern = Append(nl.gen.extern, name)]
             g2 == emit_all(g1, << <<"", "mov", "rax, " \o label>>, <<"", "push", "rax">> >>)
             g3 == [g2 EXCEPT !.functions =
                        dict_set(g2.functions, label, thunk_lines(name, param_len))]
         IN  GenOk([g3 EXCEPT !.context = move_stack_pointer(g3.context)])

\* GeneratorX86_64Linux.set_name
set_name(g, name) == GenOk([g EXCEPT !.context = add_variable(g.context, name)])

\* GeneratorX86_64Linux.make_number
make_number(g, value) ==
    LET g1 == emit(g, <<"", "push", ToString(value)>>)
    IN  GenOk([g1 EXCEPT !.context = move_stack_pointer(g1.context)])

\* GeneratorX86_64Linux.push_reference
push_reference(g, name) ==
    LET position == get_position(g.context, name) IN
    IF position.exc # "none" THEN GenRaise(position.exc, g)
    ELSE IF ~(position.val <= 0) THEN GenRaise("AssertionError", g)
    ELSE LET g1 == emit_all(g, << <<"", "mov", "rax, [rbp-" \o ToString(-position.val) \o "]">>,
                                  <<"", "push", "rax">> >>)
         IN  GenOk([g1 EXCEPT !.context = move_stack_pointer(g1.context)])

\* The methods table of _Generator.compile and the number of parameters
\* each method takes.
methods ==
    {IR_MAKE_NUMBER, IR_EXTERN, IR_SET_NAME, IR_CALL_FUNCTION, IR_MAKE_STRING,
     IR_PUSH_REFERENCE}
arity(op) == IF op \in {IR_EXTERN, IR_CALL_FUNCTION} THEN 2 ELSE 1

\* A copy loop whose counter starts one too low (the faulty variant the
\* loop properties are tested against).
copy_loop_lines_short(string_label, string_length, start_label, end_label) ==
    << <<"", "mov", "rdi, " \o string_label>>,
       <<"", "mov", "rcx, " \o ToString(string_length - 1)>>,
       <<"", "xor", "rbx, rbx">>,
       <<start_label \o ":", "mov", "bl, byte [rdi]">>,
       <<"", "mov", "byte [rax], bl">>,
       <<"", "inc", "rax">>,
       <<"", "inc", "rdi">>,
       <<"", "dec", "rcx">>,
       <<"", "cmp", "rcx, byte 0">>,
       <<"", "je", end_label>>,
       <<"", "jmp", start_label>>,
       <<end_label \o ":", "", "">> >>

\* The copy loop make_string emits (generator.py 286-299).
copy_loop_lines(string_label, string_length, start_label, end_label) ==
    << <<"", "mov", "rdi, " \o string_label>>,
       <<"", "mov", "rcx, " \o ToString(string_length)>>,
       <<"", "xor", "rbx, rbx">>,
       <<start_label \o ":", "mov", "bl, byte [rdi]">>,
       <<"", "mov", "byte [rax], bl">>,
       <<"", "inc", "rax">>,
       <<"", "inc", "rdi">>,
       <<"", "dec", "rcx">>,
       <<"", "cmp", "rcx, byte 0">>,
       <<"", "je", end_label>>,
       <<"", "jmp", start_label>>,
       <<end_label \o ":", "", "">> >>

RECURSIVE compile(_, _), call_function(_, _, _), make_string(_, _), dispatch(_, _)

\* _Generator.compile: for instr, args in ir: if instr != IR_NOP:
\* methods[instr](*args).  A raise leaves the generator as it then is.
compile(g, code) ==
    IF code = <<>> THEN GenOk(g) ELSE
    LET r == IF code[1].op # IR_NOP THEN dispatch(g, code[1]) ELSE GenOk(g) IN
    IF r.exc # "none" THEN r ELSE compile(r.gen, Tail(code))

\* methods[instr](*args): KeyError for an op with no entry, TypeError when
\* unpacking args gives another number of arguments than the method takes
\* (a str unpacks into its characters).
dispatch(g, instr) ==
    IF instr.op \notin methods THEN GenRaise("KeyError", g)
    ELSE IF Len(instr.args) # arity(instr.op) THEN GenRaise("TypeError", g)
    ELSE IF instr.op = IR_MAKE_NUMBER THEN make_number(g, Head(instr.args))
    ELSE IF instr.op = IR_EXTERN THEN extern(g, Head(instr.args), Head(Tail(instr.args)))
    ELSE IF instr.op = IR_SET_NAME THEN set_name(g, Head(instr.args))
    ELSE IF instr.op = IR_CALL_FUNCTION
    THEN call_function(g, Head(instr.args), Head(Tail(instr.args)))
    ELSE IF instr.op = IR_MAKE_STRING THEN make_string(g, Head(instr.args))
    ELSE push_reference(g, Head(instr.args))

\* GeneratorX86_64Linux.call_function
call_function(g, name, args) ==
    LET compiled == compile(g, args) IN
    IF compiled.exc # "none" THEN compiled ELSE
    LET g1 == compiled.gen
        position == get_position(g1.context, name)
        arg_len == Len(args)
    IN  IF position.exc # "none" THEN GenRaise(position.exc, g1)
        ELSE IF ~(position.val <= 0) THEN GenRaise("AssertionError", g1)
        ELSE GenOk(emit_all(g1, << <<"", "call", "[rbp-" \o ToString(-position.val) \o "]">>,
                                   <<"", "add", "rsp, " \o ToString(8 * arg_len)>>,
                                   <<"", "push", "rax">> >>))

\* GeneratorX86_64Linux.make_string
make_string(g, value) ==
    LET string_length == Len(value) + 1
        r1 == extern(g, "malloc", 1)
    IN  IF r1.exc # "none" THEN r1 ELSE
    LET r2 == set_name(r1.gen, "malloc")
        r3 == make_number(r2.gen, string_length)
        r4 == call_function(r3.gen, "malloc", <<Instr(IR_NOP, <<>>)>>)
    IN  IF r4.exc # "none" THEN r4 ELSE
    LET n1 == _next_label(r4.gen, "s")
        n2 == _next_label(n1.gen, "l")
        n3 == _next_label(n2.gen, "e")
        string_label == n1.label
        start_label == n2.label
        end_label == n3.label
        g1 == [n3.gen EXCEPT !.data =
                   dict_set(n3.gen.data, string_label,
                            <<"", "db", "\"" \o value \o "\", 0">>)]
        g2 == emit_all(g1, copy_loop_lines(string_label, string_length, start_label, end_label))
    IN  GenOk([g2 EXCEPT !.context = move_stack_pointer(g2.context)])

\* _format_line: three fields left-justified to ten characters.
RECURSIVE ljust(_, _)
ljust(s, width) == IF Len(s) >= width THEN s ELSE ljust(s \o " ", width)
_format_line(left, middle, right) ==
    ljust(left, 10) \o " " \o ljust(middle, 10) \o " " \o ljust(right, 10) \o "\n"

format_lines(lines) == [i \in DOMAIN lines |-> _format_line(lines[i][1], lines[i][2], lines[i][3])]

RECURSIVE format_functions(_), format_data(_)
format_functions(d) ==
    IF d = <<>> THEN <<>>
    ELSE <<_format_line(d[1].name \o ":", "", "")>> \o format_lines(d[1].lines)
         \o format_functions(Tail(d))
format_data(d) ==
    IF d = <<>> THEN <<>>
    ELSE <<_format_line(d[1].name \o ": ", "", ""),
           _format_line(d[1].lines[1], d[1].lines[2], d[1].lines[3])>>
         \o format_data(Tail(d))

\* A render that appends the exit sequence only when the entry function does
\* not end with it yet (the faulty variant the render properties are tested
\* against).
asm_appends_once(g) ==
    LET lines == dict_get(g.functions, g.global)
        g1 == IF Len(lines) >= 2 /\ lines[Len(lines)] = <<"", "call", "exit">>
              THEN g
              ELSE [g EXCEPT !.functions =
                       dict_append(dict_append(g.functions, g.global, <<"", "push", "0">>),
                                   g.global, <<"", "call", "exit">>)]
    IN  [gen |-> g1,
         text |-> <<_format_line("", "global", g1.global)>> \o format_functions(g1.functions)]

\* GeneratorX86_64Linux.asm: the property appends the exit sequence to the
\* entry function, then formats.  text is the returned str as the list of
\* its lines.
asm(g) ==
    LET g1 == [g EXCEPT !.functions =
                   dict_append(dict_append(g.functions, g.global, <<"", "push", "0">>),
                               g.global, <<"", "call", "exit">>)]
        text == <<"; Generated by uro0 compiler - written by Joris Hartog\n",
                  _format_line("", "global", g1.global)>>
                \o [i \in DOMAIN g1.extern |-> _format_line("", "extern", g1.extern[i])]
                \o <<_format_line("", "section", ".text")>>
                \o format_functions(g1.functions)
                \o <<_format_line("", "section", ".data")>>
                \o format_data(g1.data)
    IN  [gen |-> g1, text |-> text]

---------------------------------------------------------------------------
(* Inputs: lines of source text. *)

\* Lines of one token: one of every kind the parser tells apart ("+" stands
\* for the kinds no production mentions), two identifiers of different
\* lengths and every keyword.
Alphabet ==
    {"x", "ab", "5", "\"a\"", "(", ")", "{", "}", "[", "]", ",", "==", ">", "<", "=",
     ":", ";", "+", "fn", "for", "import", "in", "return", "True", "False", "extern",
     "free"}

\* Longer lines: one for every statement form of the grammar, and the
\* inputs the specification's scenarios name.
Statements ==
    { "x = 5;",
      "x = 5; x;",
      "ab = 5; ab;",
      "extern(\"puts\", 1);",
      "x = extern(\"puts\", 1);",
      "x = extern(\"puts\"",
      "x = extern(\"puts\" 1);",
      "x[extern(\"puts\", 1)",
      "fn(){extern(\"puts\", 1);};",
      "x;}",
      "x;} ab",
      "fn(x){ return x;",
      "f = fn(x){ return x; }; f(5);",
      "x == ab < 5;",
      "1 == 2 == 3;", "1 == 2 < 3;", "1 == 2 > 3;",
      "1 < 2 == 3;", "1 < 2 < 3;", "1 < 2 > 3;",
      "1 > 2 == 3;", "1 > 2 < 3;", "1 > 2 > 3;",
      "x < 'a' == True;",
      "False > ab < \"a\";",
      "fn(x[0]){};",
      "x[0] = 5;",
      "x[0];",
      "'s';",
      "x = 5; x(1, 2);",
      "for x in ab {};",
      "import \"a\";",
      "free(x);",
      "return;",
      "{1: 2};",
      "True;",
      "1 +" }

\* Lines that hold no token: an empty line, whitespace, a comment.
Blanks == {"", " ", "# c"}

Lines == Alphabet \cup Statements \cup Blanks

\* The lines a text may have.
MaxLines == 3

---------------------------------------------------------------------------
(* The pipeline of uro.py main (tokenize, add_tokens, parse, IRGenerator,   *)
(* Generator.compile, asm), fed one source line at a time: as                *)
(* Shell.evaluate does, the caller parses after every line and reads the     *)
(* next line when parse raises UnexpectedEOF.  Any other exception ends the  *)
(* run, as it ends main.                                                    *)

Init ==
    /\ tokens = <<>>
    /\ ast = <<>>
    /\ pc = "input"
    /\ ret = "none"
    /\ exc = NoExc
    /\ ir = <<>>
    /\ gen = Generator
    /\ out = <<>>
    /\ nadded = 0
    /\ continuation = FALSE
    /\ log = <<>>
    /\ lex = NoLex
    /\ cpu = NoCpu

\* tokens = tokenize(...); parser.add_tokens(tokens), for the next line of
\* the text.
AddTokens(line) ==
    /\ pc = "input"
    /\ nadded < MaxLines
    /\ tokens' = add_tokens(tokens, tokenize_line(line, nadded + 1))
    /\ nadded' = nadded + 1
    /\ pc' = "added"
    /\ exc' = NoExc
    /\ UNCHANGED <<ast, ret, ir, gen, out, continuation, log, lex, cpu>>

\* parser.parse()
Parse ==
    /\ pc = "added"
    /\ LET r == parse(tokens, ast) IN
       /\ tokens' = r.tokens
       /\ ast' = r.ast
       /\ ret' = r.ret
       /\ exc' = r.exc
       /\ pc' = IF r.exc.kind = "UnexpectedEOF" THEN "input"
                ELSE IF r.exc.kind # "none" THEN "raised"
                ELSE IF r.ret = "True" THEN "parsed"
                ELSE "raised"
    /\ UNCHANGED <<ir, gen, out, nadded, continuation, log, lex, cpu>>

\* irg = IRGenerator(parser.ast); irg.ir
Lower ==
    /\ pc = "parsed"
    /\ LET r == IRGenerator_ir(ast) IN
       /\ ir' = r.ir
       /\ exc' = [NoExc EXCEPT !.kind = r.exc]
       /\ pc' = IF r.exc = "none" THEN "lowered" ELSE "raised"
    /\ UNCHANGED <<tokens, ast, ret, gen, out, nadded, continuation, log, lex, cpu>>

\* gen = Generator(); gen.compile(irg.ir)
Compile ==
    /\ pc = "lowered"
    /\ LET r == compile(Generator, ir) IN
       /\ gen' = r.gen
       /\ exc' = [NoExc EXCEPT !.kind = r.exc]
       /\ pc' = IF r.exc = "none" THEN "compiled" ELSE "raised"
    /\ UNCHANGED <<tokens, ast, ret, ir, out, nadded, continuation, log, lex, cpu>>

\* print(gen.asm)
Asm ==
    /\ pc = "compiled"
    /\ LET r == asm(gen) IN
       /\ gen' = r.gen
       /\ out' = r.text
    /\ pc' = "done"
    /\ UNCHANGED <<tokens, ast, ret, exc, ir, nadded, continuation, log, lex, cpu>>

Next ==
    \/ \E line \in Lines : AddTokens(line)
    \/ Parse
    \/ Lower
    \/ Compile
    \/ Asm

Spec == Init /\ [][Next]_vars

---------------------------------------------------------------------------
(* uro/repl.py: the shell.  Shell.run reads a line, calls evaluate and      *)
(* loops; input() raising EOFError ends the loop.  evaluate catches         *)
(* ParseError and UnexpectedEOF only: any other exception leaves evaluate   *)
(* and run, and the process ends with a traceback.                          *)

\* The lines typed at the prompt.
ShellLines ==
    { "x = 5;", "x;", "x =", "5;", "'s';", "x = extern(\"puts\", 1);",
      "fn(x){ return x;", "};", "1 +", ")", "x[0;" }

\* The lines one shell session may read.
MaxInputs == 3

\* Shell.evaluate(statement) on the shell's parser (self.parser._tokens,
\* self.parser.ast), written as one operator per stage so that each stage
\* is computed once.  The result: the parser's fields afterwards; caught,
\* the exception an except clause handled; raised, the exception that leaves
\* evaluate; continuation and result, the pair returned (result <<>> for
\* None); ir and gen, the locals irg.ir and gen.
EvalResult(p) ==
    [tokens |-> p.tokens, ast |-> p.ast, ret |-> p.ret, caught |-> NoExc,
     raised |-> NoExc, continuation |-> FALSE, result |-> <<>>,
     ir |-> <<>>, gen |-> Generator]

\* return False, gen.asm
evaluate_compiled(p, code, rendered) ==
    [EvalResult(p) EXCEPT !.ir = code, !.gen = rendered.gen, !.result = rendered.text]

\* gen = Generator(); gen.compile(irg.ir)
evaluate_lowered(p, code, compiled) ==
    IF compiled.exc # "none"
    THEN [EvalResult(p) EXCEPT !.raised = [NoExc EXCEPT !.kind = compiled.exc],
                               !.ir = code, !.gen = compiled.gen]
    ELSE evaluate_compiled(p, code, asm(compiled.gen))

\* irg = IRGenerator(self.parser.ast)
evaluate_asserted(p, irg) ==
    IF irg.exc # "none"
    THEN [EvalResult(p) EXCEPT !.raised = [NoExc EXCEPT !.kind = irg.exc]]
    ELSE evaluate_lowered(p, irg.ir, compile(Generator, irg.ir))

\* success = self.parser.parse(); assert success; and the except clauses.
evaluate_parsed(p) ==
    IF p.exc.kind = "ParseError"
    THEN [EvalResult(p) EXCEPT !.tokens = reset(p.tokens), !.caught = p.exc]
    ELSE IF p.exc.kind = "UnexpectedEOF"
    THEN [EvalResult(p) EXCEPT !.caught = p.exc, !.continuation = TRUE]
    ELSE IF p.exc.kind # "none"
    THEN [EvalResult(p) EXCEPT !.raised = p.exc]
    ELSE IF p.ret # "True"
    THEN [EvalResult(p) EXCEPT !.raised = [NoExc EXCEPT !.kind = "AssertionError"]]
    ELSE evaluate_asserted(p, IRGenerator_ir(p.ast))

\* tokens = tokenize(statement); self.parser.add_tokens(tokens)
evaluate(self_tokens, self_ast, statement) ==
    evaluate_parsed(parse(add_tokens(self_tokens, tokenize(statement)), self_ast))

\* Shell.__init__ and the first lines of run.
ShellInit ==
    /\ tokens = <<>>
    /\ ast = <<>>
    /\ pc = "prompt"
    /\ ret = "none"
    /\ exc = NoExc
    /\ ir = <<>>
    /\ gen = Generator
    /\ out = <<>>
    /\ nadded = 0
    /\ continuation = FALSE
    /\ log = <<>>
    /\ lex = NoLex
    /\ cpu = NoCpu

\* continuation, result = self.evaluate(statement), for the value r that
\* evaluate gives.  An exception evaluate does not catch ends run before
\* continuation is assigned.  ir is the IR this call lowered (<<>> when it
\* did not get that far), out the result it returned, gen the generator of
\* the last call that returned assembly; log lists how each call ended.
Returned(r) ==
    /\ tokens' = r.tokens
    /\ ast' = r.ast
    /\ ret' = r.ret
    /\ exc' = IF r.raised.kind # "none" THEN r.raised ELSE r.caught
    /\ pc' = IF r.raised.kind # "none" THEN "crashed" ELSE "prompt"
    /\ continuation' = IF r.raised.kind # "none" THEN continuation ELSE r.continuation
    /\ ir' = r.ir
    /\ gen' = IF r.raised.kind = "none" /\ r.caught.kind = "none" THEN r.gen ELSE gen
    /\ out' = r.result
    /\ log' = Append(log, IF r.raised.kind # "none" THEN r.raised.kind
                          ELSE IF r.caught.kind # "none" THEN r.caught.kind
                          ELSE "success")

\* One round of the loop of Shell.run: statement = input(...), then evaluate.
Evaluate(line) ==
    /\ pc = "prompt"
    /\ nadded < MaxInputs
    /\ Returned(evaluate(tokens, ast, line))
    /\ nadded' = nadded + 1
    /\ UNCHANGED <<lex, cpu>>

\* input() raises EOFError: run prints "Bye!" and returns.
Bye ==
    /\ pc = "prompt"
    /\ pc' = "exited"
    /\ UNCHANGED <<tokens, ast, ret, exc, ir, gen, out, nadded, continuation, log, lex, cpu>>

ShellNext ==
    \/ \E line \in ShellLines : Evaluate(line)
    \/ Bye

ShellSpec == ShellInit /\ [][ShellNext]_vars

---------------------------------------------------------------------------
(* uro/generator.py driven through its interface: one generator instance,  *)
(* on which a caller makes compile calls and reads asm, in any order.  A    *)
(* raise leaves the instance as the method left it, and the caller may go   *)
(* on using it.                                                             *)

\* The IR lists handed to compile, one instruction each.
IRPool ==
    << <<Instr(IR_EXTERN, <<"puts", 1>>)>>,
       <<Instr(IR_EXTERN, <<"puts", 4>>)>>,
       <<Instr(IR_EXTERN, <<"puts", 5>>)>>,
       <<Instr(IR_EXTERN, <<"malloc", 1>>)>>,
       <<Instr(IR_EXTERN, <<"a", 5>>)>>,
       <<Instr(IR_EXTERN, <<"a", 0>>)>>,
       <<Instr(IR_EXTERN, <<"a", 2>>)>>,
       <<Instr(IR_EXTERN, <<"a", 3>>)>>,
       <<Instr(IR_EXTERN, <<"a", 6>>)>>,
       <<Instr(IR_MAKE_STRING, <<"s">>)>>,
       <<Instr(IR_MAKE_STRING, <<"">>)>>,
       <<Instr(IR_MAKE_NUMBER, <<5>>)>>,
       <<Instr(IR_SET_NAME, <<"x">>)>>,
       <<Instr(IR_PUSH_REFERENCE, <<"x">>)>>,
       <<Instr(IR_CALL_FUNCTION, <<"x", <<Instr(IR_MAKE_NUMBER, <<1>>)>> >>)>>,
       <<Instr(IR_CALL_FUNCTION, <<"x", <<>> >>)>>,
       <<Instr(IR_CALL_FUNCTION,
               <<"x", <<Instr(IR_MAKE_NUMBER, <<1>>), Instr(IR_MAKE_NUMBER, <<2>>)>> >>)>>,
       <<Instr(IR_MAKE_BOOLEAN, <<TRUE>>)>>,
       <<Instr(IR_NOP, <<>>)>> >>

\* The calls made on one generator instance.
MaxCalls == 3

\* gen = Generator()
GenInit ==
    /\ tokens = <<>>
    /\ ast = <<>>
    /\ pc = "generator"
    /\ ret = "none"
    /\ exc = NoExc
    /\ ir = <<>>
    /\ gen = Generator
    /\ out = <<>>
    /\ nadded = 0
    /\ continuation = FALSE
    /\ log = <<>>
    /\ lex = NoLex
    /\ cpu = NoCpu

\* The generator and the exception after gen.compile(code), given what
\* compile computes.
Compiled(r) ==
    /\ gen' = r.gen
    /\ exc' = [NoExc EXCEPT !.kind = r.exc]

\* gen.compile(code); ir holds the list of the last call, log every
\* instruction handed over so far.
CompileCall(code) ==
    /\ pc = "generator"
    /\ nadded < MaxCalls
    /\ Compiled(compile(gen, code))
    /\ ir' = code
    /\ log' = log \o code
    /\ nadded' = nadded + 1
    /\ UNCHANGED <<tokens, ast, pc, ret, out, continuation, lex, cpu>>

\* The generator and the text after reading gen.asm.
Rendered(r) ==
    /\ gen' = r.gen
    /\ out' = r.text

\* gen.asm
AsmCall ==
    /\ pc = "generator"
    /\ nadded < MaxCalls
    /\ Rendered(asm(gen))
    /\ exc' = NoExc
    /\ nadded' = nadded + 1
    /\ UNCHANGED <<tokens, ast, pc, ret, ir, continuation, log, lex, cpu>>

GenNext ==
    \/ \E i \in DOMAIN IRPool : CompileCall(IRPool[i])
    \/ AsmCall

GenSpec == GenInit /\ [][GenNext]_vars

---------------------------------------------------------------------------
(* uro/lexer.py tokenize run as its loops run: the for loop over the lines  *)
(* of the text and the while loop that cuts one match after another from    *)
(* the front of the line.  lex holds the locals: the text, the lines still  *)
(* to come, the line as it was (whole) and as it is now (line), the loop    *)
(* index line_number, and what was cut from the line so far (consumed).     *)

\* The characters of the texts and the length a text may have.
LexChars == {" ", "\n", "#", "'", "5", "i", "n", "@"}
MaxLen == 4

\* The texts of at most n characters.
RECURSIVE SourcesOf(_)
SourcesOf(n) ==
    IF n = 0 THEN {""}
    ELSE {""} \cup {c \o t : c \in LexChars, t \in SourcesOf(n - 1)}

\* tokenize(code) is called: tokens = [], and the for loop takes the first
\* element of code.split("\n").
LexInit ==
    /\ tokens = <<>>
    /\ ast = <<>>
    /\ pc = "lexing"
    /\ ret = "none"
    /\ exc = NoExc
    /\ ir = <<>>
    /\ gen = Generator
    /\ out = <<>>
    /\ nadded = 0
    /\ continuation = FALSE
    /\ log = <<>>
    /\ cpu = NoCpu
    /\ \E code \in SourcesOf(MaxLen) :
           lex = [code |-> code,
                  lines |-> Tail(split_lines(code)),
                  whole |-> Head(split_lines(code)),
                  line |-> Head(split_lines(code)),
                  line_number |-> 0,
                  consumed |-> ""]

\* The locals and the token list after one round of "while line", given
\* what _find_token found at the front of the line.
Lexed(found) ==
    /\ tokens' = IF found.type \notin {TOKEN_WHITESPACE, TOKEN_COMMENT}
                 THEN Append(tokens, Token(found.type, found.value, lex.line_number + 1))
                 ELSE tokens
    /\ lex' = [lex EXCEPT !.line = SubSeq(lex.line, Len(found.value) + 1, Len(lex.line)),
                          !.consumed = lex.consumed \o found.value]

\* One round of "while line:".
LexIterate ==
    /\ pc = "lexing"
    /\ lex.line # ""
    /\ Lexed(_find_token(lex.line))
    /\ UNCHANGED <<ast, pc, ret, exc, ir, gen, out, nadded, continuation, log, cpu>>

\* The line is used up: the for loop takes the next line.
LexNextLine ==
    /\ pc = "lexing"
    /\ lex.line = ""
    /\ lex.lines # <<>>
    /\ lex' = [lex EXCEPT !.lines = Tail(lex.lines),
                          !.whole = Head(lex.lines),
                          !.line = Head(lex.lines),
                          !.line_number = lex.line_number + 1,
                          !.consumed = ""]
    /\ UNCHANGED <<tokens, ast, pc, ret, exc, ir, gen, out, nadded, continuation, log, cpu>>

\* The last line is used up: return tokens.
LexReturn ==
    /\ pc = "lexing"
    /\ lex.line = ""
    /\ lex.lines = <<>>
    /\ pc' = "returned"
    /\ UNCHANGED <<tokens, ast, ret, exc, ir, gen, out, nadded, continuation, log, lex, cpu>>

LexNext ==
    \/ LexIterate
    \/ LexNextLine
    \/ LexReturn

\* The loops of tokenize run on: nothing but the function itself decides
\* whether the next round is taken.
LexSpec == LexInit /\ [][LexNext]_vars /\ WF_vars(LexNext)

---------------------------------------------------------------------------
(* The copy loop that make_string emits (generator.py 286-299), run by the *)
(* machine: cpu.ip is the place in the entry function's stream of the line *)
(* to run next, rdi and rax count the bytes from the start of the data and *)
(* of the block malloc returned, dest is what was written to that block.   *)

\* The lengths of the string literals whose loop is run, and the literals.
MaxStringLen == 3
StringValues == {SubSeq("abcdefgh", 1, n) : n \in 0..MaxStringLen}

\* What the generator compiled before the literal: nothing, or a literal.
Before == << <<>>, <<Instr(IR_MAKE_STRING, <<"s">>)>> >>

\* The bytes at a data label: the characters between the quotes of its db
\* line, then the zero byte.
DataBytes(g, label) ==
    LET text == dict_get(g.data, label)[3]
        value == SubSeq(text, 2, Len(text) - 4)
    IN  [k \in 1..Len(value) |-> SubSeq(value, k, k)] \o <<"NUL">>

\* The line of a stream at which a label is defined.
Target(lines, label) == CHOOSE k \in DOMAIN lines : lines[k][1] = label \o ":"

\* The machine after it has run the line at cpu.ip of a stream.
Step(c, g, lines) ==
    LET op == lines[c.ip][2]
        arg == lines[c.ip][3]
        next == [c EXCEPT !.ip = c.ip + 1]
    IN  IF op = "mov" /\ SubSeq(arg, 1, 5) = "rdi, "
        THEN [next EXCEPT !.rdi = 0, !.source = SubSeq(arg, 6, Len(arg))]
        ELSE IF op = "mov" /\ SubSeq(arg, 1, 5) = "rcx, "
        THEN [next EXCEPT !.rcx = int(SubSeq(arg, 6, Len(arg)))]
        ELSE IF op = "xor" THEN [next EXCEPT !.bl = "NUL"]
        ELSE IF op = "mov" /\ arg = "bl, byte [rdi]"
        THEN [next EXCEPT !.bl = IF c.rdi + 1 \in DOMAIN DataBytes(g, c.source)
                                 THEN DataBytes(g, c.source)[c.rdi + 1]
                                 ELSE "?"]
        ELSE IF op = "mov" /\ arg = "byte [rax], bl"
        THEN [next EXCEPT !.dest = IF c.rax + 1 \in DOMAIN c.dest
                                   THEN [c.dest EXCEPT ![c.rax + 1] = c.bl]
                                   ELSE Append(c.dest, c.bl)]
        ELSE IF op = "inc" /\ arg = "rax" THEN [next EXCEPT !.rax = c.rax + 1]
        ELSE IF op = "inc" /\ arg = "rdi" THEN [next EXCEPT !.rdi = c.rdi + 1]
        ELSE IF op = "dec" THEN [next EXCEPT !.rcx = c.rcx - 1]
        ELSE IF op = "cmp" THEN [next EXCEPT !.zf = (c.rcx = 0)]
        ELSE IF op = "je" THEN (IF c.zf THEN [c EXCEPT !.ip = Target(lines, arg)] ELSE next)
        ELSE IF op = "jmp" THEN [c EXCEPT !.ip = Target(lines, arg)]
        ELSE next

\* The generator has compiled the literal; the machine has run the stream
\* up to the loop: rax holds the start of the block malloc returned.
Loaded(g) ==
    /\ gen = g
    /\ cpu = [NoCpu EXCEPT !.ip = Len(dict_get(g.functions, g.global)) - 11]

LoopInit ==
    /\ tokens = <<>>
    /\ ast = <<>>
    /\ pc = "running"
    /\ ret = "none"
    /\ exc = NoExc
    /\ out = <<>>
    /\ nadded = 0
    /\ continuation = FALSE
    /\ log = <<>>
    /\ lex = NoLex
    /\ \E value \in StringValues, k \in DOMAIN Before :
           /\ ir = <<Instr(IR_MAKE_STRING, <<value>>)>>
           /\ \E before \in {compile(Generator, Before[k]).gen} :
              \E g \in {compile(before, ir).gen} : Loaded(g)

\* The machine runs the instruction at cpu.ip.
Execute ==
    /\ pc = "running"
    /\ dict_get(gen.functions, gen.global)[cpu.ip][2] # ""
    /\ cpu' = Step(cpu, gen, dict_get(gen.functions, gen.global))
    /\ UNCHANGED <<tokens, ast, pc, ret, exc, ir, gen, out, nadded, continuation, log, lex>>

\* The machine has come to the line after the loop, which holds the end
\* label and no instruction.
LoopExit ==
    /\ pc = "running"
    /\ dict_get(gen.functions, gen.global)[cpu.ip][2] = ""
    /\ pc' = "halted"
    /\ UNCHANGED <<tokens, ast, ret, exc, ir, gen, out, nadded, continuation, log, lex, cpu>>

LoopNext ==
    \/ Execute
    \/ LoopExit

\* The machine goes on running as long as there is a line to run.
LoopSpec == LoopInit /\ [][LoopNext]_vars /\ WF_vars(LoopNext)

---------------------------------------------------------------------------
(* uro/generator.py Context used as a chain of two scopes: an outer        *)
(* context that was given some bindings and pushes, and its child, given   *)
(* some more.  The generator's current context is the child; a caller      *)
(* looks a name up in it with get_position or reads its variables.         *)

\* The names bound, and how many add_variable / move_stack_pointer calls
\* each of the two contexts may receive.
ContextNames == {"a", "b"}
MaxOuterCalls == 3
MaxInnerCalls == 2

\* The contexts that at most n calls of add_variable and move_stack_pointer
\* make of ctx.
RECURSIVE ContextsFrom(_, _)
ContextsFrom(ctx, n) ==
    IF n = 0 THEN {ctx}
    ELSE {ctx}
         \cup UNION {ContextsFrom(add_variable(ctx, name), n - 1) : name \in ContextNames}
         \cup ContextsFrom(move_stack_pointer(ctx), n - 1)

CtxInit ==
    /\ tokens = <<>>
    /\ ast = <<>>
    /\ pc = "context"
    /\ ret = "none"
    /\ exc = NoExc
    /\ ir = <<>>
    /\ out = <<>>
    /\ nadded = 0
    /\ continuation = FALSE
    /\ log = <<>>
    /\ lex = NoLex
    /\ cpu = NoCpu
    /\ \E outer \in ContextsFrom(Context("main", <<>>), MaxOuterCalls) :
       \E inner \in ContextsFrom(child(outer), MaxInnerCalls) :
           gen = [Generator EXCEPT !.context = inner]

\* self._context.get_position(name): out is the position returned.
GetPosition(name) ==
    /\ pc = "context"
    /\ pc' = "looked up"
    /\ log' = <<name>>
    /\ exc' = [NoExc EXCEPT !.kind = get_position(gen.context, name).exc]
    /\ out' = <<get_position(gen.context, name).val>>
    /\ UNCHANGED <<tokens, ast, ret, ir, gen, nadded, continuation, lex, cpu>>

\* self._context.variables: out is the dict returned.
ReadVariables ==
    /\ pc = "context"
    /\ pc' = "read"
    /\ exc' = [NoExc EXCEPT !.kind = variables(gen.context).exc]
    /\ out' = variables(gen.context).val
    /\ UNCHANGED <<tokens, ast, ret, ir, gen, nadded, continuation, log, lex, cpu>>

CtxNext ==
    \/ \E name \in ContextNames : GetPosition(name)
    \/ ReadVariables

CtxSpec == CtxInit /\ [][CtxNext]_vars

---------------------------------------------------------------------------
(* Properties of the parser and of the pipeline, checked under Spec. *)

\* The tokens parse_program leaves in the list it was handed.
Leftover(self_tokens) == cls("parse_program", with_eof(self_tokens)).rest

\* C1: parse() returns True, committing the AST and clearing the buffer,
\* only when parse_program consumed every buffered token, so that the
\* end-of-input sentinel is the only token left in the list.
C1_TrueOnlyWhenAllConsumed ==
    [][(pc = "added" /\ ret' = "True") => Leftover(tokens) = <<with_eof(tokens)[Len(tokens) + 1]>>]_vars

\* C2: whenever the token at which the parser rejects the input is the
\* end-of-input sentinel, the exception parse() raises is UnexpectedEOF.
C2_EOFRaisesUnexpectedEOF ==
    (exc.kind # "none" /\ exc.at.type = TOKEN_EOF) => exc.kind = "UnexpectedEOF"

\* C3: whenever the parser rejects the input at a token other than
\* end-of-input, parse() raises ParseError and no other exception, and the
\* error carries exactly the token that was rejected, with its own line.
C3_ParseErrorCarriesOffendingToken ==
    (exc.kind # "none" /\ exc.at.type \notin {TOKEN_EOF, NoToken.type})
        => (exc.kind = "ParseError" /\ exc.token = exc.at)

\* A buffer that is one extern declaration used as a statement:
\* extern ( STRING , NUMBER ) ;
IsExternStatement(buffer) ==
    /\ Len(buffer) = 7
    /\ buffer[1].type = TOKEN_KEYWORD /\ buffer[1].value = "extern"
    /\ buffer[2].type = TOKEN_LBRACKET
    /\ buffer[3].type = TOKEN_STRING
    /\ buffer[4].type = TOKEN_COMMA
    /\ buffer[5].type = TOKEN_NUMBER
    /\ buffer[6].type = TOKEN_RBRACKET
    /\ buffer[7].type = TOKEN_SEMICOLON

\* The same statement as the only statement of a function literal's block:
\* fn ( ) { extern ( STRING , NUMBER ) ; } ;
IsExternInBlock(buffer) ==
    /\ Len(buffer) = 13
    /\ buffer[1].type = TOKEN_KEYWORD /\ buffer[1].value = "fn"
    /\ buffer[2].type = TOKEN_LBRACKET
    /\ buffer[3].type = TOKEN_RBRACKET
    /\ buffer[4].type = TOKEN_LCURLYBRACKET
    /\ IsExternStatement(SubSeq(buffer, 5, 11))
    /\ buffer[12].type = TOKEN_RCURLYBRACKET
    /\ buffer[13].type = TOKEN_SEMICOLON

\* C4: an extern declaration at statement position, at top level or inside
\* a block, is accepted by parse(); at top level it is one statement holding
\* an extern node, which lowers to the single instruction
\* EXTERN(name without quotes, integer parameter count).
C4_ExternStatementAccepted ==
    [][/\ (pc = "added" /\ IsExternStatement(tokens))
            => /\ ret' = "True"
               /\ Len(ast') = 1
               /\ ast'[1].content.type = NODE_EXTERN
               /\ IRGenerator_ir(ast').ir =
                      <<Instr(IR_EXTERN, <<_remove_quotes(tokens[3].value).val,
                                           int(tokens[5].value)>>)>>
       /\ (pc = "added" /\ IsExternInBlock(tokens)) => ret' = "True"]_vars

\* C5: once parse() has returned True, lowering the committed AST and
\* compiling the IR with a fresh generator raise no exception.
C5_AcceptedProgramsCompile ==
    ret = "True" => exc.kind = "none"

\* The IR of "name = number; name;": a binding and then a bare reference.
IsBoundReference(code) ==
    /\ Len(code) = 3
    /\ code[1].op = IR_MAKE_NUMBER
    /\ code[2].op = IR_SET_NAME
    /\ code[3].op = IR_PUSH_REFERENCE

\* The last two lines of a list of lines.
LastTwo(lines) == SubSeq(lines, Len(lines) - 1, Len(lines))

\* C6: a bare reference to a name bound by an earlier assignment lowers to
\* (PUSH_REFERENCE, args) with args a 1-tuple holding the whole name; compile
\* passes that name to push_reference, which emits the load from the name's
\* frame slot and a push, and moves the context offset by one slot.
C6_BareReferencePushesBoundName ==
    (pc \in {"lowered", "compiled", "raised"} /\ IsBoundReference(ir))
        => /\ Len(ir[3].args) = 1
           /\ Head(ir[3].args) = ir[2].args[1]
           /\ pc # "raised"
           /\ pc = "compiled"
                => /\ LastTwo(dict_get(gen.functions, "main")) =
                          << <<"", "mov", "rax, [rbp-8]">>, <<"", "push", "rax">> >>
                   /\ gen.context.position = -16

\* A token that is an operand by itself, and the node parse_expression
\* builds for it.
IsOperand(t) ==
    \/ t.type \in {TOKEN_NUMBER, TOKEN_STRING, TOKEN_IDENTIFIER}
    \/ t.type = TOKEN_KEYWORD /\ t.value \in {"True", "False"}
Operand(t) ==
    IF t.type = TOKEN_NUMBER THEN Node(NODE_NUMBER_LITERAL, t)
    ELSE IF t.type = TOKEN_STRING THEN Node(NODE_STRING_LITERAL, t)
    ELSE IF t.type = TOKEN_IDENTIFIER THEN Node(NODE_IDENTITY, << <<t, <<>> >> >>)
    ELSE Node(NODE_BOOLEAN, t)

\* A buffer that is the statement  a op1 b op2 c ;
IsComparisonChain(buffer) ==
    /\ Len(buffer) = 6
    /\ IsOperand(buffer[1]) /\ IsOperand(buffer[3]) /\ IsOperand(buffer[5])
    /\ buffer[2].type \in {TOKEN_EQUAL, TOKEN_LESSTHAN, TOKEN_GREATERTHAN}
    /\ buffer[4].type \in {TOKEN_EQUAL, TOKEN_LESSTHAN, TOKEN_GREATERTHAN}
    /\ buffer[6].type = TOKEN_SEMICOLON

\* C15: a op1 b op2 c parses to the comparison node [a, op1, R] with R the
\* comparison node [b, op2, c], for every choice of the two operators; the
\* left operand of the outer node is a, never a comparison.
C15_ComparisonsNestToTheRight ==
    [][(pc = "added" /\ IsComparisonChain(tokens)) =>
          /\ ret' = "True"
          /\ Len(ast') = 1
          /\ ast'[1] =
               Node(NODE_STATEMENT,
                    Node(NODE_COMPARISON,
                         <<Operand(tokens[1]), tokens[2],
                           Node(NODE_COMPARISON,
                                <<Operand(tokens[3]), tokens[4], Operand(tokens[5])>>)>>))
          /\ ast'[1].content.content[1].type # NODE_COMPARISON]_vars

\* The chain  1 < 2 == 3 ;  was parsed: the outer node holds "<" and, on its
\* right, the node of "==".
C15_ChainParsed ==
    /\ pc = "parsed"
    /\ Len(ast) = 1
    /\ ast[1].content.type = NODE_COMPARISON
    /\ Len(ast[1].content.content) = 3
    /\ ast[1].content.content[1].type = NODE_NUMBER_LITERAL
    /\ ast[1].content.content[2].type = TOKEN_LESSTHAN
    /\ ast[1].content.content[3].type = NODE_COMPARISON
    /\ ast[1].content.content[3].content[2].type = TOKEN_EQUAL
    /\ ast[1].content.content[3].content[3].type = NODE_NUMBER_LITERAL

---------------------------------------------------------------------------
(* Properties of the shell, checked under ShellSpec. *)

IsPrefix(short, long) ==
    Len(short) <= Len(long) /\ SubSeq(long, 1, Len(short)) = short

\* The lines of the entry function of a generator.
MainLines(g) == dict_get(g.functions, g.global)

\* A step of the shell in which evaluate was called.
EvaluateStep == pc = "prompt" /\ nadded' = nadded + 1

\* C7: every successful evaluate compiles into the same running generator:
\* the generator whose assembly a successful call returns still holds all
\* that the generator of the successful call before it held, and a bare
\* reference to a name which that generator binds is compiled without
\* "Unknown variable".
C7_OneRunningGenerator ==
    [][EvaluateStep
         => /\ (pc' = "prompt" /\ exc'.kind = "none")
                => IsPrefix(MainLines(gen), MainLines(gen'))
            /\ (/\ Len(ir') = 1
                /\ ir'[1].op = IR_PUSH_REFERENCE
                /\ ir'[1].args \in DOMAIN gen.context.variables
                /\ gen.context.variables[ir'[1].args] # 0)
                => exc'.kind # "ValueError"]_vars

\* C8: an evaluate that ends with UnexpectedEOF keeps the buffer, now the
\* pending lines followed by the new line, and gives continuation True; one
\* that ends with ParseError discards the whole buffer and gives continuation
\* False; after a success the buffer is empty and continuation is False.  So
\* at every prompt where continuation is False the buffer is empty.
C8_BufferFollowsOutcome ==
    [][EvaluateStep
         => /\ exc'.kind = "UnexpectedEOF"
                => /\ continuation' = TRUE
                   /\ pc' = "prompt"
                   /\ \E line \in ShellLines : tokens' = tokens \o tokenize(line)
            /\ exc'.kind = "ParseError"
                => (continuation' = FALSE /\ pc' = "prompt" /\ tokens' = <<>>)
            /\ exc'.kind = "none"
                => (continuation' = FALSE /\ pc' = "prompt" /\ tokens' = <<>>)
            /\ (pc' = "prompt" /\ continuation' = FALSE) => tokens' = <<>>]_vars

\* Two pending lines were discarded together: a line that ended with
\* UnexpectedEOF, then a line that ended with ParseError.
C8_PendingLinesDiscarded ==
    /\ pc = "prompt"
    /\ Len(log) = 2
    /\ log[1] = "UnexpectedEOF"
    /\ log[2] = "ParseError"
    /\ continuation = FALSE
    /\ tokens = <<>>

---------------------------------------------------------------------------
(* Properties of the generator, checked under GenSpec. *)

\* A step in which compile was called with the single instruction
\* EXTERN(name, param_len) for a name the generator has declared.
RepeatedExternStep ==
    /\ log' # log
    /\ Len(ir') = 1
    /\ ir'[1].op = IR_EXTERN
    /\ \E i \in DOMAIN gen.extern : gen.extern[i] = ir'[1].args[1]

\* C9: EXTERN on a name that is already declared is a no-op for every
\* parameter count, also above 4: it raises nothing and changes nothing.
C9_DeclaredExternIsNoOp ==
    [][RepeatedExternStep => (exc'.kind = "none" /\ gen' = gen)]_vars

\* The functions of g, other than the two the generator starts with, that
\* call the extern symbol name: its thunks.
Thunks(g, name) ==
    {k \in DOMAIN g.functions :
        /\ g.functions[k].name \notin {"main", "exit"}
        /\ \E m \in DOMAIN g.functions[k].lines :
               g.functions[k].lines[m] = <<"", "call", name>>}

\* Every extern symbol is listed once and has exactly one thunk.
DeclaredOnce(g) ==
    /\ \A i, j \in DOMAIN g.extern : g.extern[i] = g.extern[j] => i = j
    /\ \A i \in DOMAIN g.extern : Cardinality(Thunks(g, g.extern[i])) = 1
    /\ \A i, j \in DOMAIN g.functions : g.functions[i].name = g.functions[j].name => i = j

\* C10: after any sequence of compile calls every extern symbol occurs at
\* most once in the extern list and has exactly one thunk body; an EXTERN of
\* a declared name with the parameter count of its thunk adds no thunk body,
\* no label and no instruction.
C10_ExternDeclaredOnce ==
    [][/\ DeclaredOnce(gen')
       /\ (/\ RepeatedExternStep
           /\ \E k \in DOMAIN gen.functions :
                  gen.functions[k].lines = thunk_lines(ir'[1].args[1], ir'[1].args[2]))
            => (exc'.kind = "none" /\ gen' = gen)]_vars

\* The malloc symbol was asked for three times (by MAKE_STRING, by EXTERN, by
\* MAKE_STRING again) and is declared once.
C10_MallocAskedThrice ==
    /\ Len(log) = 3
    /\ log[1].op = IR_MAKE_STRING
    /\ log[2].op = IR_EXTERN
    /\ log[2].args[1] = "malloc"
    /\ log[3].op = IR_MAKE_STRING
    /\ exc.kind = "none"
    /\ gen.extern = <<"malloc">>
    /\ Cardinality(Thunks(gen, "malloc")) = 1

\* A step in which compile was called with the single instruction
\* EXTERN(name, param_len) for a name the generator has not declared.
FirstExternStep ==
    /\ log' # log
    /\ Len(ir') = 1
    /\ ir'[1].op = IR_EXTERN
    /\ ~(\E i \in DOMAIN gen.extern : gen.extern[i] = ir'[1].args[1])

\* C11: for a name not yet declared, EXTERN(name, n) raises
\* NotImplementedError exactly when n > 4; for n in 0..4 it raises nothing,
\* lists the name and builds its thunk for n parameters; when it raises, the
\* functions, the data, the extern list, the label counters and the context
\* are all as they were.
C11_ExternParamBudget ==
    [][FirstExternStep =>
         /\ (exc'.kind = "NotImplementedError") <=> (ir'[1].args[2] > 4)
         /\ (ir'[1].args[2] <= 4) =>
               /\ exc'.kind = "none"
               /\ gen'.extern = Append(gen.extern, ir'[1].args[1])
               /\ Thunks(gen', ir'[1].args[1]) # {}
               /\ \A k \in Thunks(gen', ir'[1].args[1]) :
                      gen'.functions[k].lines = thunk_lines(ir'[1].args[1], ir'[1].args[2])
         /\ (ir'[1].args[2] > 4) =>
               /\ gen'.functions = gen.functions
               /\ gen'.data = gen.data
               /\ gen'.extern = gen.extern
               /\ gen'.labels = gen.labels
               /\ gen'.context = gen.context]_vars

\* An EXTERN with 5 parameters for a new name was refused by a generator
\* that had declared another name before.
C11_BudgetExceededAfterDeclaration ==
    /\ exc.kind = "NotImplementedError"
    /\ Len(ir) = 1
    /\ ir[1].op = IR_EXTERN
    /\ ir[1].args = <<"a", 5>>
    /\ gen.extern = <<"puts">>
    /\ gen.context.position = -8

\* The n-th label of a prefix: prefix_NNNNNN.
LabelOf(prefix, n) == prefix \o "_" \o zero_pad(ToString(n), 6)

\* The number of labels requested so far for a prefix.
Requested(g, prefix) ==
    IF prefix \in DOMAIN g.labels THEN g.labels[prefix] - 1 ELSE 0

\* The labels defined in the entry function's stream, with their colon.
DefinedAt(g) ==
    {k \in DOMAIN MainLines(g) : MainLines(g)[k][1] # ""}

\* Every label in use is the n-th of its prefix for n from 1 up to the
\* number requested, and none is in use twice.
LabelsInSequence(g) ==
    /\ \A prefix \in DOMAIN g.labels : g.labels[prefix] >= 2
    /\ Len(g.functions) = 2 + Requested(g, "f")
    /\ \A n \in 1..Requested(g, "f") : g.functions[2 + n].name = LabelOf("f", n)
    /\ Len(g.data) = Requested(g, "s")
    /\ \A n \in 1..Requested(g, "s") : g.data[n].name = LabelOf("s", n)
    /\ Requested(g, "l") = Requested(g, "s")
    /\ Requested(g, "e") = Requested(g, "s")
    /\ Cardinality(DefinedAt(g)) = Requested(g, "l") + Requested(g, "e")
    /\ \A n \in 1..Requested(g, "l") :
           /\ \E k \in DefinedAt(g) : MainLines(g)[k][1] = LabelOf("l", n) \o ":"
           /\ \E k \in DefinedAt(g) : MainLines(g)[k][1] = LabelOf("e", n) \o ":"
           /\ \E k \in DOMAIN MainLines(g) :
                  MainLines(g)[k] = <<"", "mov", "rdi, " \o LabelOf("s", n)>>

\* Every entry of the functions and of the data of g is still in h: a
\* function's stream may have grown at its end, a data entry is the same.
Kept(g, h) ==
    /\ Len(g.functions) <= Len(h.functions)
    /\ \A k \in DOMAIN g.functions :
           /\ h.functions[k].name = g.functions[k].name
           /\ IsPrefix(g.functions[k].lines, h.functions[k].lines)
    /\ Len(g.data) <= Len(h.data)
    /\ \A k \in DOMAIN g.data : h.data[k] = g.data[k]
    /\ \A prefix \in DOMAIN g.labels :
           prefix \in DOMAIN h.labels /\ h.labels[prefix] >= g.labels[prefix]

\* C12: in one generator, after any sequence of compile calls, the labels
\* are prefix_NNNNNN with the counter of each prefix running from 1 in steps
\* of 1, no label is generated twice, every string literal has its own data
\* label and its own loop-start and loop-end label, and no call overwrites
\* or removes an entry of the functions or of the data.
C12_LabelsUniqueAndMapsGrow ==
    [][LabelsInSequence(gen') /\ Kept(gen, gen')]_vars

\* Two string literals and an extern were compiled by one generator: two
\* data labels, two loop pairs and two function labels are in use.
C12_TwoStringLiterals ==
    /\ exc.kind = "none"
    /\ Requested(gen, "s") = 2
    /\ Requested(gen, "l") = 2
    /\ Requested(gen, "e") = 2
    /\ Requested(gen, "f") = 2
    /\ gen.data[2].name = "s_000002"
    /\ gen.data[1].lines # gen.data[2].lines

\* The exit epilogue asm appends to the entry function.
Epilogue == << <<"", "push", "0">>, <<"", "call", "exit">> >>

\* A step in which gen.asm was read; Renders is the number of reads so far
\* (every compile call hands over one instruction, which log records).
AsmStep == nadded' = nadded + 1 /\ log' = log
Renders == nadded - Len(log)

\* The entry function's stream ends with k copies of the epilogue.
RECURSIVE EndsWithCopies(_, _)
EndsWithCopies(lines, k) ==
    IF k = 0 THEN TRUE
    ELSE /\ Len(lines) >= 2
         /\ LastTwo(lines) = Epilogue
         /\ EndsWithCopies(SubSeq(lines, 1, Len(lines) - 2), k - 1)

\* C13: every read of asm appends the exit epilogue (push 0, call exit) to
\* the entry function's stream and changes nothing else of the generator, so
\* a stream that ended with k copies ends with k + 1, the stream holds one
\* "call exit" per read, and the text differs from the text of the read
\* before.
C13_RenderAppendsEpilogue ==
    [][AsmStep =>
         /\ MainLines(gen') = MainLines(gen) \o Epilogue
         /\ Kept(gen, gen') /\ Len(gen'.functions) = Len(gen.functions)
         /\ \A k \in DOMAIN gen.functions :
                gen.functions[k].name # "main" => gen'.functions[k] = gen.functions[k]
         /\ gen'.data = gen.data /\ gen'.extern = gen.extern
         /\ gen'.labels = gen.labels /\ gen'.context = gen.context
         /\ \A k \in 0..MaxCalls :
                EndsWithCopies(MainLines(gen), k) => EndsWithCopies(MainLines(gen'), k + 1)
         /\ Cardinality({k \in DOMAIN MainLines(gen') :
                            MainLines(gen')[k] = <<"", "call", "exit">>}) = Renders'
         /\ out # <<>> => out' # out]_vars

\* asm was read twice in a row after a compile: the entry stream ends with
\* two copies of the epilogue.
C13_RenderedTwiceInARow ==
    /\ nadded = 3
    /\ Len(log) = 1
    /\ log[1].op = IR_MAKE_NUMBER
    /\ Len(MainLines(gen)) = 6
    /\ EndsWithCopies(MainLines(gen), 2)
    /\ out # <<>>

---------------------------------------------------------------------------
(* Properties of the lexer, checked under LexSpec. *)

\* What holds of the tokens emitted and of the line at every point of a
\* tokenize call.
LexInvariant ==
    /\ \A k \in DOMAIN tokens : tokens[k].type \notin {TOKEN_WHITESPACE, TOKEN_COMMENT}
    /\ \A k \in DOMAIN tokens : tokens[k].line >= 1
    /\ \A k \in 1..(Len(tokens) - 1) : tokens[k].line <= tokens[k + 1].line
    /\ lex.whole = split_lines(lex.code)[lex.line_number + 1]
    /\ lex.consumed \o lex.line = lex.whole
    /\ pc = "returned" =>
           /\ lex.consumed = lex.whole
           /\ lex.line_number + 1 = Len(split_lines(lex.code))
           /\ tokens = tokenize(lex.code)

\* What holds of every round: a round of the while loop cuts at least one
\* character, and a line is left only when all of it was cut.
LexProgress ==
    /\ (pc' = "lexing" /\ lex'.line_number = lex.line_number) =>
           /\ Len(lex'.line) < Len(lex.line)
           /\ Len(lex'.consumed) > Len(lex.consumed)
           /\ Len(tokens') <= Len(tokens) + 1
    /\ (pc' = "returned" \/ lex'.line_number # lex.line_number) =>
           /\ lex.consumed = lex.whole
           /\ tokens' = tokens

\* C14: for every text tokenize terminates; it never emits a WHITESPACE or a
\* COMMENT token; the line numbers of the tokens start at 1 and never
\* decrease; for each line, what was cut from it (tokens and discarded
\* matches, in order) is the line itself; every round of the loop cuts at
\* least one character.
C14_TokenizeConsumesEveryLine ==
    /\ []LexInvariant
    /\ [][LexProgress]_vars
    /\ <>(pc = "returned")

\* A text of two lines with a number, a comment and an unknown character was
\* tokenized: the comment is not among the tokens.
C14_CommentAndUnknownLexed ==
    /\ pc = "returned"
    /\ lex.code = "5#\n@"
    /\ Len(tokens) = 2
    /\ tokens[1] = Token(TOKEN_NUMBER, "5", 1)
    /\ tokens[2] = Token(TOKEN_UNKNOWN, "@", 2)

---------------------------------------------------------------------------
(* Properties of compiled calls and string literals. *)

\* The IR of "name = number; name(number, number);": a binding, then a call
\* of the bound name with two number arguments of different values.
IsTwoArgumentCall(code) ==
    /\ Len(code) = 3
    /\ code[1].op = IR_MAKE_NUMBER
    /\ code[2].op = IR_SET_NAME
    /\ code[3].op = IR_CALL_FUNCTION
    /\ Len(code[3].args[2]) = 2
    /\ code[3].args[2][1].op = IR_MAKE_NUMBER
    /\ code[3].args[2][2].op = IR_MAKE_NUMBER
    /\ code[3].args[2][1].args[1] # code[3].args[2][2].args[1]
    /\ code[3].args[2][1].args[1] # code[1].args[1]
    /\ code[3].args[2][2].args[1] # code[1].args[1]

\* The places of the entry function's stream where the number v is pushed,
\* and those of the indirect calls.
PushesOf(g, v) ==
    {k \in DOMAIN MainLines(g) : MainLines(g)[k] = <<"", "push", ToString(v)>>}
IndirectCalls(g) ==
    {k \in DOMAIN MainLines(g) :
        /\ MainLines(g)[k][2] = "call"
        /\ SubSeq(MainLines(g)[k][3], 1, 5) = "[rbp-"}

\* C16: when a call with two arguments is compiled, the push of the last
\* source argument is emitted before the push of the first (the last
\* parameter is pushed first), and both are emitted before the indirect call.
C16_LastArgumentPushedFirst ==
    (pc = "compiled" /\ IsTwoArgumentCall(ir)) =>
        /\ PushesOf(gen, ir[3].args[2][1].args[1]) # {}
        /\ PushesOf(gen, ir[3].args[2][2].args[1]) # {}
        /\ IndirectCalls(gen) # {}
        /\ \A first \in PushesOf(gen, ir[3].args[2][1].args[1]) :
           \A last \in PushesOf(gen, ir[3].args[2][2].args[1]) :
               /\ last < first
               /\ \A call \in IndirectCalls(gen) : last < call /\ first < call

\* A call with two arguments was compiled.
C16_TwoArgumentCallCompiled ==
    /\ pc = "compiled"
    /\ IsTwoArgumentCall(ir)
    /\ Cardinality(IndirectCalls(gen)) = 1

\* Where the stack pointer stands, relative to rbp, after the machine has
\* run a stream from its first line to its last: a push moves it down by a
\* slot, "add rsp, k" moves it up by k, and a call comes back with it where
\* it was.
RECURSIVE RuntimeOffset(_)
RuntimeOffset(lines) ==
    IF lines = <<>> THEN 0
    ELSE LET line == lines[Len(lines)]
             before == RuntimeOffset(SubSeq(lines, 1, Len(lines) - 1))
         IN  IF line[2] = "push" THEN before - 8
             ELSE IF line[2] = "add" /\ SubSeq(line[3], 1, 5) = "rsp, "
             THEN before + int(SubSeq(line[3], 6, Len(line[3])))
             ELSE before

\* The context offset of g addresses the slot that is the top of the stack
\* when the entry function's stream has run.
OffsetIsTopOfStack(g) == g.context.position = RuntimeOffset(MainLines(g))

\* A step in which compile was called with one CALL_FUNCTION instruction and
\* returned, on a generator whose offset was the top of the stack.
CallStep ==
    /\ log' # log
    /\ Len(ir') = 1
    /\ ir'[1].op = IR_CALL_FUNCTION
    /\ exc'.kind = "none"
    /\ OffsetIsTopOfStack(gen)

\* C17: after CALL_FUNCTION(name, args) is compiled, for 0, 1 or 2 argument
\* values, the stream ends with the push of rax, the cleanup has dropped the
\* argument slots so that the return value lies one slot below the old top,
\* and the context offset is the slot of the return value: a SET_NAME
\* compiled next binds its name to that slot.
C17_ReturnValueIsTopOfStack ==
    [][CallStep =>
         /\ MainLines(gen')[Len(MainLines(gen'))] = <<"", "push", "rax">>
         /\ RuntimeOffset(MainLines(gen')) = RuntimeOffset(MainLines(gen)) - 8
         /\ OffsetIsTopOfStack(gen')
         /\ set_name(gen', "r").gen.context.variables["r"]
                = RuntimeOffset(MainLines(gen'))]_vars

\* A call with no argument was compiled on a generator whose offset was the
\* top of the stack.
C17_CallWithoutArguments ==
    /\ exc.kind = "none"
    /\ Len(log) = 3
    /\ log[1].op = IR_MAKE_NUMBER
    /\ log[2].op = IR_SET_NAME
    /\ log[3].op = IR_CALL_FUNCTION
    /\ log[3].args[2] = <<>>
    /\ RuntimeOffset(MainLines(gen)) = -16

\* A step in which compile was called with one MAKE_STRING instruction and
\* returned, on a generator that had declared malloc and whose offset was
\* the top of the stack.
StringStep ==
    /\ log' # log
    /\ Len(ir') = 1
    /\ ir'[1].op = IR_MAKE_STRING
    /\ exc'.kind = "none"
    /\ in_list("malloc", gen.extern)
    /\ OffsetIsTopOfStack(gen)

\* C18: compiling MAKE_STRING(v) with malloc already declared leaves one
\* value more on the stack, the pointer malloc returned, and moves the
\* context offset by exactly one slot, to the slot of that pointer: a
\* SET_NAME compiled next binds its name to the string pointer.
C18_StringPointerIsTopOfStack ==
    [][StringStep =>
         /\ RuntimeOffset(MainLines(gen')) = RuntimeOffset(MainLines(gen)) - 8
         /\ gen'.context.position = gen.context.position - 8
         /\ OffsetIsTopOfStack(gen')
         /\ set_name(gen', "r").gen.context.variables["r"]
                = RuntimeOffset(MainLines(gen'))]_vars

\* A string literal was compiled by a generator that had declared malloc
\* before and nothing else.
C18_StringAfterMalloc ==
    /\ exc.kind = "none"
    /\ Len(log) = 2
    /\ log[1] = Instr(IR_EXTERN, <<"malloc", 1>>)
    /\ log[2].op = IR_MAKE_STRING
    /\ RuntimeOffset(MainLines(gen)) = -16

\* The frame slot into which the address of malloc's thunk was pushed when
\* malloc was declared: the top of the stack after the push that follows
\* "mov rax, <label of the thunk>".
MallocSlot(g) ==
    LET label == g.functions[CHOOSE k \in Thunks(g, "malloc") : TRUE].name
        at == CHOOSE k \in DOMAIN MainLines(g) : MainLines(g)[k] = <<"", "mov", "rax, " \o label>>
    IN  RuntimeOffset(SubSeq(MainLines(g), 1, at + 1))

\* The lines a step added to the entry function's stream.
Emitted == SubSeq(MainLines(gen'), Len(MainLines(gen)) + 1, Len(MainLines(gen')))

\* A step in which compile was called with one MAKE_STRING instruction and
\* returned, on a generator whose assembly was not read yet.
AllocationStep ==
    /\ log' # log
    /\ Len(ir') = 1
    /\ ir'[1].op = IR_MAKE_STRING
    /\ exc'.kind = "none"
    /\ Renders = 0

\* C19: for every MAKE_STRING of a session, the first and the later ones,
\* the indirect call emitted for the allocation goes through the slot that
\* holds the address of malloc's thunk, and the name malloc stays bound to
\* that slot.
C19_AllocationCallsMallocSlot ==
    [][AllocationStep =>
         /\ \E k \in DOMAIN Emitted : Emitted[k][2] = "call"
         /\ \A k \in DOMAIN Emitted :
                Emitted[k][2] = "call" =>
                    Emitted[k] = <<"", "call", "[rbp-" \o ToString(-MallocSlot(gen')) \o "]">>
         /\ gen'.context.variables["malloc"] = MallocSlot(gen')]_vars

\* Two string literals were compiled one after the other by a new generator.
C19_SecondStringLiteral ==
    /\ exc.kind = "none"
    /\ Len(log) = 2
    /\ log[1].op = IR_MAKE_STRING
    /\ log[2].op = IR_MAKE_STRING
    /\ MallocSlot(gen) = -8

---------------------------------------------------------------------------
(* Properties of the emitted copy loop, checked under LoopSpec. *)

\* The places of the entry function's stream at which a label is defined.
DefinitionsOf(g, label) ==
    {k \in DOMAIN MainLines(g) : MainLines(g)[k][1] = label \o ":"}

\* The loop of the literal is the last twelve lines of the stream: its two
\* jumps go to the loop-start and the loop-end label generated for this
\* literal, and each of the two is defined once, in this loop.
LoopWellFormed ==
    LET lines == MainLines(gen)
        n == Requested(gen, "s")
        last == Len(lines)
    IN  /\ lines[last - 11] = <<"", "mov", "rdi, " \o LabelOf("s", n)>>
        /\ lines[last - 2] = <<"", "je", LabelOf("e", n)>>
        /\ lines[last - 1] = <<"", "jmp", LabelOf("l", n)>>
        /\ DefinitionsOf(gen, LabelOf("l", n)) = {last - 8}
        /\ DefinitionsOf(gen, LabelOf("e", n)) = {last}
        /\ \A k \in DOMAIN lines :
               lines[k][2] \in {"je", "jmp"} =>
                   Cardinality(DefinitionsOf(gen, lines[k][3])) = 1

\* The loop never writes more than the literal and its terminator, and when
\* it is left the block holds exactly these len(v) + 1 bytes.
LoopCopies ==
    LET value == ir[1].args[1] IN
    /\ Len(cpu.dest) <= Len(value) + 1
    /\ cpu.rcx >= 0
    /\ pc = "halted" =>
           /\ Len(cpu.dest) = Len(value) + 1
           /\ cpu.dest = [k \in 1..Len(value) |-> SubSeq(value, k, k)] \o <<"NUL">>
           /\ cpu.rcx = 0
           /\ cpu.ip = Len(MainLines(gen))

\* C20: the copy loop emitted by MAKE_STRING(v), run with its counter set to
\* len(v) + 1, terminates for every length from 0 on, having copied exactly
\* the len(v) characters and the zero terminator; each of the two labels it
\* jumps to is defined exactly once and is the one generated for this
\* literal.
C20_CopyLoopTerminates ==
    /\ [](LoopWellFormed /\ LoopCopies)
    /\ <>(pc = "halted")

\* The loop of a second literal, "abc", has run to its end: four bytes were
\* copied and the labels are those of the second literal.
C20_SecondLoopFinished ==
    /\ pc = "halted"
    /\ ir[1].args[1] = "abc"
    /\ Requested(gen, "l") = 2
    /\ cpu.dest = <<"a", "b", "c", "NUL">>
    /\ cpu.source = "s_000002"

---------------------------------------------------------------------------
(* Properties of the context, checked under GenSpec. *)

\* A step in which compile was called with one PUSH_REFERENCE or one
\* CALL_FUNCTION instruction; LookedUp is the name the instruction looks up.
LookupStep ==
    /\ log' # log
    /\ Len(ir') = 1
    /\ ir'[1].op \in {IR_PUSH_REFERENCE, IR_CALL_FUNCTION}
LookedUp == ir'[1].args[1]

\* C21: PUSH_REFERENCE(name) and CALL_FUNCTION(name, args) raise the
\* unknown-variable error (ValueError) if and only if the name is unbound: a
\* name bound by an earlier SET_NAME resolves to its offset whatever the
\* offset is, also the offset 0 that SET_NAME records before anything was
\* pushed, and the instruction then raises nothing.
C21_UnknownVariableIffUnbound ==
    [][LookupStep =>
         /\ (exc'.kind = "ValueError") <=> (LookedUp \notin DOMAIN gen.context.variables)
         /\ (LookedUp \in DOMAIN gen.context.variables) => exc'.kind = "none"]_vars

\* A name was bound by SET_NAME before anything was pushed: it is bound to
\* the offset 0.
C21_BoundAtOffsetZero ==
    /\ Len(log) = 1
    /\ log[1].op = IR_SET_NAME
    /\ "x" \in DOMAIN gen.context.variables
    /\ gen.context.variables["x"] = 0

---------------------------------------------------------------------------
(* Properties of a chain of contexts, checked under CtxSpec. *)

\* The binding of a name in a chain: the local one when there is one,
\* otherwise that of the nearest enclosing context; <<>> when no context of
\* the chain binds the name.
RECURSIVE Binding(_, _)
Binding(ctx, name) ==
    IF name \in DOMAIN ctx.variables THEN <<ctx.variables[name]>>
    ELSE IF ctx.parent # <<>> THEN Binding(ctx.parent, name)
    ELSE <<>>

\* C22: in a child context, get_position gives the local binding of a name
\* when there is one and otherwise the binding of the nearest enclosing
\* context (for bindings other than the offset 0), and the variables view of
\* a child with a parent is computed without an exception.
C22_LookupWalksTheChain ==
    /\ (pc = "looked up" /\ Binding(gen.context, log[1]) \notin {<<>>, <<0>>}) =>
           /\ exc.kind = "none"
           /\ out = Binding(gen.context, log[1])
    /\ pc = "read" => exc.kind = "none"

\* A name bound to a slot of the outer context only was looked up in the
\* child.
C22_OuterBindingLookedUp ==
    /\ pc = "looked up"
    /\ log = <<"a">>
    /\ "a" \notin DOMAIN gen.context.variables
    /\ gen.context.parent.variables = ("a" :> -8)

---------------------------------------------------------------------------
(* Properties of the lowering of function literals, checked under Spec. *)

\* The parameters of the function literal that is statement i of a program,
\* and those of them that are an identity carrying one or more keys.
IsFunctionLiteral(program, i) ==
    /\ program[i].type = NODE_STATEMENT
    /\ program[i].content.type = NODE_FUNCTION
KeyedParameters(program, i) ==
    {k \in DOMAIN program[i].content.content[1] :
        LET arg == program[i].content.content[1][k] IN
        /\ arg.content.type = NODE_IDENTITY
        /\ Len(arg.content.content[1][2]) > 0}
HasKeyedParameter(program) ==
    \E i \in DOMAIN program :
        IsFunctionLiteral(program, i) /\ KeyedParameters(program, i) # {}

\* C23: lowering a program with a function literal one of whose parameters
\* is an identity carrying index keys (x[0]) fails the precondition of
\* _generate_function: the lowering raises AssertionError and no
\* MAKE_FUNCTION is produced for the literal.
C23_KeyedParameterRejected ==
    [][(pc = "parsed" /\ HasKeyedParameter(ast)) =>
          /\ pc' = "raised"
          /\ exc'.kind = "AssertionError"]_vars

\* The program  fn(x[0]){};  was lowered: its only instruction is a
\* MAKE_FUNCTION whose parameter is the bare name x.
C23_KeyedParameterLowered ==
    /\ pc = "lowered"
    /\ Len(ast) = 1
    /\ HasKeyedParameter(ast)
    /\ Len(ir) = 1
    /\ ir[1].op = IR_MAKE_FUNCTION
    /\ ir[1].args[1] = <<"x">>

---------------------------------------------------------------------------
(* Properties of the thunk of an extern symbol, checked under GenSpec.      *)
(* The thunk is run on a machine whose stack is addressed relative to the   *)
(* stack pointer at entry: the return address is at 0 and the n argument    *)
(* slots the caller pushed are at 8, 16, ..., 8n.  Registers hold symbolic  *)
(* values; the called C function keeps rbp and rsp and clobbers the         *)
(* argument registers.                                                      *)

ArgumentRegisters == <<"rdi", "rsi", "rdx", "rcx">>

Entry(n) ==
    [rsp |-> 0, frame |-> 0, fault |-> FALSE, done |-> FALSE,
     regs |-> [r \in {"rbp", "rdi", "rsi", "rdx", "rcx"} |-> r \o " of the caller"],
     mem |-> [a \in {8 * k : k \in 0..n} |->
                 IF a = 0 THEN "return address" ELSE "argument slot"],
     pushed |-> <<>>, popped |-> <<>>, loads |-> <<>>, passed |-> <<>>]

Fault(m) == [m EXCEPT !.fault = TRUE]

ThunkStep(m, line) ==
    IF m.fault \/ m.done THEN Fault(m)
    ELSE IF line[2] = "push"
    THEN [m EXCEPT !.rsp = m.rsp - 8,
                   !.mem = ((m.rsp - 8) :> m.regs[line[3]]) @@ m.mem,
                   !.pushed = Append(m.pushed, line[3])]
    ELSE IF line[2] = "pop"
    THEN IF m.rsp \notin DOMAIN m.mem THEN Fault(m)
         ELSE [m EXCEPT !.regs[line[3]] = m.mem[m.rsp],
                        !.rsp = m.rsp + 8,
                        !.popped = Append(m.popped, line[3])]
    ELSE IF line[2] = "mov" /\ line[3] = "rbp, rsp"
    THEN [m EXCEPT !.regs["rbp"] = "frame", !.frame = m.rsp]
    ELSE IF line[2] = "mov" /\ line[3] = "rsp, rbp"
    THEN IF m.regs["rbp"] # "frame" THEN Fault(m) ELSE [m EXCEPT !.rsp = m.frame]
    ELSE IF line[2] = "mov"
    THEN LET reg == SubSeq(line[3], 1, 3)
             address == m.frame + int(SubSeq(line[3], 11, Len(line[3]) - 1))
         IN  IF \/ SubSeq(line[3], 4, 10) # ", [rbp+"
                \/ m.regs["rbp"] # "frame"
                \/ address \notin DOMAIN m.mem
             THEN Fault(m)
             ELSE [m EXCEPT !.regs[reg] = m.mem[address],
                            !.loads = Append(m.loads, <<reg, address>>)]
    ELSE IF line[2] = "call"
    THEN [m EXCEPT !.passed = [k \in 1..4 |-> m.regs[ArgumentRegisters[k]]],
                   !.regs = [r \in DOMAIN m.regs |->
                                IF r = "rbp" THEN m.regs[r] ELSE "clobbered"]]
    ELSE IF line[2] = "ret"
    THEN IF m.rsp \notin DOMAIN m.mem THEN Fault(m)
         ELSE [m EXCEPT !.done = (m.mem[m.rsp] = "return address")]
    ELSE Fault(m)

RECURSIVE RunThunk(_, _)
RunThunk(m, lines) ==
    IF lines = <<>> THEN m ELSE RunThunk(ThunkStep(m, Head(lines)), Tail(lines))

Reversed(s) == [k \in 1..Len(s) |-> s[Len(s) + 1 - k]]

\* A step in which compile was called with one EXTERN instruction and a
\* thunk was added for it; the thunk is the last function of the generator.
ExternStep ==
    /\ log' # log
    /\ Len(ir') = 1
    /\ ir'[1].op = IR_EXTERN
    /\ Len(gen'.functions) = Len(gen.functions) + 1
NewThunk == gen'.functions[Len(gen'.functions)].lines

\* C24: the thunk emitted by EXTERN(name, n), n in 0..4, pushes rbp and then
\* the first n of rdi, rsi, rdx, rcx; it loads argument register k from
\* [rbp + 16 + 8n + 8k], which is the k-th of the n argument slots above
\* the return address (never a saved register, the saved rbp or the return
\* address, and no slot twice); it pops the saved registers in the reverse
\* of the push order, giving them back their values, and ret finds the
\* stack pointer at the return address.
C24_ThunkLayout ==
    [][ExternStep =>
         LET n == ir'[1].args[2]
             m == RunThunk(Entry(n), NewThunk)
         IN  /\ n \in 0..4
             /\ ~m.fault
             /\ m.pushed = <<"rbp">> \o SubSeq(ArgumentRegisters, 1, n)
             /\ Len(m.loads) = n
             /\ \A k \in 1..n :
                   /\ m.loads[k] = <<ArgumentRegisters[k], 8 * k>>
                   /\ m.passed[k] = "argument slot"
                   /\ NewThunk[n + 2 + k] =
                        <<"", "mov", ArgumentRegisters[k] \o ", [rbp+"
                                     \o ToString(16 + 8 * n + 8 * (k - 1)) \o "]">>
             /\ m.popped = Reversed(m.pushed)
             /\ \A k \in 1..Len(m.pushed) :
                   m.regs[m.pushed[k]] = m.pushed[k] \o " of the caller"
             /\ m.done
             /\ m.rsp = 0]_vars

\* The thunk of an extern symbol of four parameters was emitted and, run,
\* loads its four argument registers.
C24_FourParameterThunk ==
    /\ ir = <<Instr(IR_EXTERN, <<"puts", 4>>)>>
    /\ exc.kind = "none"
    /\ Len(gen.functions) = 3
    /\ Len(RunThunk(Entry(4), gen.functions[3].lines).loads) = 4

---------------------------------------------------------------------------
(* Properties of the context's offsets, checked under GenSpec. *)

\* The current offset and every bound offset are at or below the frame
\* pointer, and the current offset is a whole number of slots.
OffsetsInFrame(ctx) ==
    /\ ctx.position <= 0
    /\ (-ctx.position) % 8 = 0
    /\ \A name \in DOMAIN ctx.variables : ctx.variables[name] <= 0

\* C25: after any sequence of compile calls the context's current offset
\* is <= 0 and a multiple of 8, every offset bound to a name is <= 0, no
\* compile call ends in the AssertionError of "assert position <= 0"
\* (call_function, push_reference), and no step increases the offset.
C25_OffsetsNeverPositive ==
    /\ [](OffsetsInFrame(gen.context) /\ exc.kind # "AssertionError")
    /\ [][gen'.context.position <= gen.context.position]_vars

\* A reference to a bound name was compiled after its binding: the
\* assertion of push_reference was reached and held.
C25_ReferencePushed ==
    /\ Len(log) = 3
    /\ log[2].op = IR_SET_NAME
    /\ log[3].op = IR_PUSH_REFERENCE
    /\ exc.kind = "none"
    /\ gen.context.variables["x"] = -8
    /\ gen.context.position = -16

---------------------------------------------------------------------------
(* Properties of the outcomes of parse, checked under Spec. *)

\* C26: parse never returns False.  A call either returns True or raises
\* ParseError or UnexpectedEOF, and when it raises the token buffer and the
\* ast field are what they were before the call.
C26_ParseRaisesOrReturnsTrue ==
    [][pc = "added" =>
          /\ ret' # "False"
          /\ \/ exc'.kind = "none" /\ ret' = "True"
             \/ /\ exc'.kind \in {"ParseError", "UnexpectedEOF"}
                /\ tokens' = tokens
                /\ ast' = ast]_vars

\* A parse ended in an exception that is neither ParseError nor
\* UnexpectedEOF, with the buffer still holding the tokens of the call.
C26_ParseRaisedAnotherKind ==
    /\ pc = "raised"
    /\ ir = <<>>
    /\ tokens # <<>>
    /\ ret = "none"
    /\ exc.kind \notin {"none", "ParseError", "UnexpectedEOF"}

\* The part of C26 that does not name the kinds of exception.
ParseNeverReturnsFalse ==
    [][pc = "added" =>
          /\ ret' # "False"
          /\ \/ exc'.kind = "none" /\ ret' = "True"
             \/ /\ exc'.kind # "none"
                /\ tokens' = tokens
                /\ ast' = ast]_vars

---------------------------------------------------------------------------
(* Properties of the empty program, checked under Spec. *)

\* C27: parse on an empty token buffer (an empty source, or one holding
\* only whitespace and comments) returns True and commits the empty AST; it
\* raises neither ParseError nor UnexpectedEOF.
C27_EmptyProgramAccepted ==
    [][(pc = "added" /\ tokens = <<>>) =>
          /\ exc'.kind = "none"
          /\ ret' = "True"
          /\ ast' = <<>>
          /\ pc' = "parsed"]_vars

\* parse was called on an empty buffer and raised UnexpectedEOF at the
\* end-of-input sentinel: the reader is back at its input.
C27_EmptyBufferRaised ==
    /\ pc = "input"
    /\ nadded = 1
    /\ tokens = <<>>
    /\ ret = "none"
    /\ exc.kind = "UnexpectedEOF"
    /\ exc.at.type = TOKEN_EOF

====
